---- MODULE Spec2Model ----
(***************************************************************************)
(* The Coze workflow exchange of server/services/coze_service.py:          *)
(* CozeService.chat_with_workflow, _create_conversation,                   *)
(* _handle_error_response and the buffered SSE parser                      *)
(* _parse_stream_response.                                                 *)
(*                                                                         *)
(* Python strings are sequences of one-character strings, so that strip,   *)
(* startswith, slicing, "".join and f-string formatting are computed.      *)
(* Python values are tagged records (None, str, int, dict).  The Chinese   *)
(* message literals of the source are rendered in ASCII; each definition   *)
(* quotes the literal it stands for.                                       *)
(***************************************************************************)
EXTENDS Integers, Sequences, FiniteSets, TLC

\* Longest response body, in lines, that the workflow endpoint returns.
MaxLines == 3

(***************************************************************************)
(* Python values                                                           *)
(***************************************************************************)
None == [t |-> "none"]

PyStr(s) == [t |-> "str", s |-> s]

PyInt(n) == [t |-> "int", n |-> n]

PyDict(d) == [t |-> "dict", d |-> d]

\* bool(v): None, "", 0 and {} are falsy.
PyTruthy(v) ==
    CASE v.t = "none" -> FALSE
      [] v.t = "str" -> v.s # <<>>
      [] v.t = "int" -> v.n # 0
      [] v.t = "dict" -> DOMAIN v.d # {}

(***************************************************************************)
(* str methods                                                             *)
(***************************************************************************)
IsSpace(c) == c \in {" ", "\t", "\r", "\n"}

RECURSIVE LStrip(_)
LStrip(s) == IF s # <<>> /\ IsSpace(Head(s)) THEN LStrip(Tail(s)) ELSE s

RECURSIVE RStrip(_)
RStrip(s) ==
    IF s # <<>> /\ IsSpace(s[Len(s)]) THEN RStrip(SubSeq(s, 1, Len(s) - 1)) ELSE s

\* s.strip()
Strip(s) == RStrip(LStrip(s))

\* s.startswith(p)
StartsWith(s, p) == Len(s) >= Len(p) /\ SubSeq(s, 1, Len(p)) = p

\* s.endswith(p)
EndsWith(s, p) == Len(s) >= Len(p) /\ SubSeq(s, Len(s) - Len(p) + 1, Len(s)) = p

\* s[n:]
Drop(s, n) == SubSeq(s, n + 1, Len(s))

\* p in s, for two strings
Contains(s, p) ==
    \E i \in 0..(Len(s) - Len(p)) : SubSeq(s, i + 1, i + Len(p)) = p

Digit(n) == <<"0", "1", "2", "3", "4", "5", "6", "7", "8", "9">>[n + 1]

RECURSIVE NatToStr(_)
NatToStr(n) == IF n < 10 THEN <<Digit(n)>> ELSE NatToStr(n \div 10) \o <<Digit(n % 10)>>

\* str(n) and the {n} of an f-string, for an int
IntToStr(n) == IF n < 0 THEN <<"-">> \o NatToStr(0 - n) ELSE NatToStr(n)

\* Mutant: "\n".join(parts)
RECURSIVE Join_WithNewlines(_)
Join_WithNewlines(parts) ==
    IF parts = <<>> THEN <<>>
    ELSE IF Tail(parts) = <<>> THEN Head(parts).s
    ELSE Head(parts).s \o <<"\n">> \o Join_WithNewlines(Tail(parts))

\* "".join(parts), for a list of str
RECURSIVE Join(_)
Join(parts) == IF parts = <<>> THEN <<>> ELSE Head(parts).s \o Join(Tail(parts))

(***************************************************************************)
(* String literals of the source                                           *)
(***************************************************************************)
\* "event: " (coze_service.py:86)
EVENT_PREFIX ==
    <<"e","v","e","n","t",":"," ">>

\* "data: " (coze_service.py:91)
DATA_PREFIX ==
    <<"d","a","t","a",":"," ">>

\* "[DONE]" (coze_service.py:94)
DONE_MARK ==
    <<"[","D","O","N","E","]">>

\* "error" (coze_service.py:101)
EV_ERROR ==
    <<"e","r","r","o","r">>

\* "conversation.message.completed" (coze_service.py:117)
EV_COMPLETED ==
    <<"c","o","n","v","e","r","s","a","t","i","o","n",".","m","e","s","s","a","g","e",".","c",
      "o","m","p","l","e","t","e","d">>

\* "done" (coze_service.py:132)
EV_DONE ==
    <<"d","o","n","e">>

\* "unknown" (coze_service.py:111)
EV_UNKNOWN ==
    <<"u","n","k","n","o","w","n">>

\* "code" (coze_service.py:101)
KEY_CODE ==
    <<"c","o","d","e">>

\* "msg" (coze_service.py:101)
KEY_MSG ==
    <<"m","s","g">>

\* f"API 错误 {error.code}: {error.msg}": the text before the code
MSG_API_ERROR ==
    <<"A","P","I"," ","e","r","r","o","r"," ">>

\* the ": " between the two fields of an f-string message
MSG_SEP ==
    <<":"," ">>

\* f"HTTP {response.status_code}: {response.text}": the text before the status
MSG_HTTP ==
    <<"H","T","T","P"," ">>

\* "未收到有效的 AI 响应，请检查 Coze 配置"
MSG_NO_VALID_RESPONSE ==
    <<"n","o"," ","v","a","l","i","d"," ","A","I"," ","r","e","s","p","o","n","s","e">>

\* f"解析响应失败: {str(e)}": the text before the exception
MSG_PARSE_FAILED ==
    <<"p","a","r","s","e"," ","f","a","i","l","e","d",":"," ">>

\* "Coze access token 未配置"
MSG_NO_TOKEN ==
    <<"a","c","c","e","s","s"," ","t","o","k","e","n"," ","n","o","t"," ","c","o","n","f","i",
      "g","u","r","e","d">>

\* "Coze workflow_id 或 app_id 未配置"
MSG_NO_WORKFLOW ==
    <<"w","o","r","k","f","l","o","w","_","i","d"," ","o","r"," ","a","p","p","_","i","d"," ",
      "n","o","t"," ","c","o","n","f","i","g","u","r","e","d">>

\* "无法创建对话"
MSG_CANNOT_CREATE ==
    <<"c","a","n","n","o","t"," ","c","r","e","a","t","e"," ","c","o","n","v","e","r","s","a",
      "t","i","o","n">>

\* "API 请求超时"
MSG_TIMEOUT ==
    <<"A","P","I"," ","r","e","q","u","e","s","t"," ","t","i","m","e","o","u","t">>

\* f"API 请求失败: {str(e)}": the text before the exception
MSG_REQUEST_FAILED ==
    <<"A","P","I"," ","r","e","q","u","e","s","t"," ","f","a","i","l","e","d",":"," ">>

\* str(e) of the TypeError that "".join raises on a part that is no str
EXC_TYPE_ERROR ==
    <<"T","y","p","e","E","r","r","o","r">>

\* str(e) of a pydantic ValidationError
EXC_VALIDATION_ERROR ==
    <<"V","a","l","i","d","a","t","i","o","n","E","r","r","o","r">>

\* str(e) of the UnicodeDecodeError of bytes.decode('utf-8')
EXC_UNICODE_ERROR ==
    <<"U","n","i","c","o","d","e","D","e","c","o","d","e","E","r","r","o","r">>

\* str(e) of an httpx transport error other than a timeout
EXC_CONNECT_ERROR ==
    <<"C","o","n","n","e","c","t","E","r","r","o","r">>

(***************************************************************************)
(* Texts the Coze API sends: data payloads, bodies of /v1/conversation/create *)
(***************************************************************************)
\* {"output":"Hel"}
C_hel ==
    <<"{","\"","o","u","t","p","u","t","\"",":","\"","H","e","l","\"","}">>

\* {"content":"{\"output\":\"Hel\"}"}
J_hel ==
    <<"{","\"","c","o","n","t","e","n","t","\"",":","\"","{","\\","\"","o","u","t","p","u","t",
      "\\","\"",":","\\","\"","H","e","l","\\","\"","}","\"","}">>

\* {"content":"lo"}
J_lo ==
    <<"{","\"","c","o","n","t","e","n","t","\"",":","\"","l","o","\"","}">>

\* {"debug_url":"http://x","conversation_id":"c1"}
J_meta ==
    <<"{","\"","d","e","b","u","g","_","u","r","l","\"",":","\"","h","t","t","p",":","/","/",
      "x","\"",",","\"","c","o","n","v","e","r","s","a","t","i","o","n","_","i","d","\"",":",
      "\"","c","1","\"","}">>

\* {"debug_url":5}
J_metabad ==
    <<"{","\"","d","e","b","u","g","_","u","r","l","\"",":","5","}">>

\* {"code":5000,"msg":"boom"}
J_err ==
    <<"{","\"","c","o","d","e","\"",":","5","0","0","0",",","\"","m","s","g","\"",":","\"","b",
      "o","o","m","\"","}">>

\* {"code":7,"msg":"no"}
J_err2 ==
    <<"{","\"","c","o","d","e","\"",":","7",",","\"","m","s","g","\"",":","\"","n","o","\"","}">>

\* {"code":5000,"msg":"boom","detail":"x"}
J_errd ==
    <<"{","\"","c","o","d","e","\"",":","5","0","0","0",",","\"","m","s","g","\"",":","\"","b",
      "o","o","m","\"",",","\"","d","e","t","a","i","l","\"",":","\"","x","\"","}">>

\* {}
J_empty ==
    <<"{","}">>

\* {not json
J_bad ==
    <<"{","n","o","t"," ","j","s","o","n">>

\* {bad}
J_badbrace ==
    <<"{","b","a","d","}">>

\* {"data":{"id":"c0"}}
B_id ==
    <<"{","\"","d","a","t","a","\"",":","{","\"","i","d","\"",":","\"","c","0","\"","}","}">>

\* {"data":{}}
B_noid ==
    <<"{","\"","d","a","t","a","\"",":","{","}","}">>

\* {"data":{"id":""}}
B_emptyid ==
    <<"{","\"","d","a","t","a","\"",":","{","\"","i","d","\"",":","\"","\"","}","}">>

\* {"data":{"id":7}}
B_intid ==
    <<"{","\"","d","a","t","a","\"",":","{","\"","i","d","\"",":","7","}","}">>

\* <html>
B_html ==
    <<"<","h","t","m","l",">">>

(***************************************************************************)
(* json.loads, tabulated on the texts above: [ok, value], ok = FALSE for a  *)
(* JSONDecodeError.                                                        *)
(***************************************************************************)
(***************************************************************************)
(* Literals of server/services/webhook_handler.py and texts of the         *)
(* `content` of a message                                                  *)
(***************************************************************************)
\* "im.message.receive_v1"
EVT_MESSAGE_RECEIVE ==
    <<"i","m",".","m","e","s","s","a","g","e",".","r","e","c","e","i","v","e","_","v","1">>

\* im.chat.updated_v1
EVT_OTHER ==
    <<"i","m",".","c","h","a","t",".","u","p","d","a","t","e","d","_","v","1">>

\* "unknown"
UNKNOWN ==
    <<"u","n","k","n","o","w","n">>

\* e1
EVENT_ID ==
    <<"e","1">>

\* "无法提取消息内容"
MSG_CANNOT_EXTRACT ==
    <<"c","a","n","n","o","t"," ","e","x","t","r","a","c","t"," ","m","e","s","s","a","g","e",
      " ","c","o","n","t","e","n","t">>

\* "消息已处理，AI 响应已生成"
MSG_AI_DONE ==
    <<"m","e","s","s","a","g","e"," ","h","a","n","d","l","e","d",","," ","A","I"," ","r","e",
      "s","p","o","n","s","e"," ","g","e","n","e","r","a","t","e","d">>

\* "AI 处理失败: "
MSG_AI_FAILED ==
    <<"A","I"," ","p","r","o","c","e","s","s","i","n","g"," ","f","a","i","l","e","d",":"," ">>

\* "AI 处理异常: "
MSG_AI_EXCEPTION ==
    <<"A","I"," ","p","r","o","c","e","s","s","i","n","g"," ","e","x","c","e","p","t","i","o",
      "n",":"," ">>

\* "事件类型 "
MSG_EVENT_TYPE ==
    <<"e","v","e","n","t"," ","t","y","p","e"," ">>

\* " 已接收，暂不处理"
MSG_NOT_PROCESSED ==
    <<" ","r","e","c","e","i","v","e","d",","," ","n","o","t"," ","p","r","o","c","e","s","s",
      "e","d">>

\* {"text":"hi"}
M_hi ==
    <<"{","\"","t","e","x","t","\"",":","\"","h","i","\"","}">>

\* {"text":""}
M_blank ==
    <<"{","\"","t","e","x","t","\"",":","\"","\"","}">>

\* {"text":null}
M_null ==
    <<"{","\"","t","e","x","t","\"",":","n","u","l","l","}">>

\* {"text":5}
M_int ==
    <<"{","\"","t","e","x","t","\"",":","5","}">>

\* 5
M_five ==
    <<"5">>

\* hello
M_raw ==
    <<"h","e","l","l","o">>

\* {"output":5}
C_out5 ==
    <<"{","\"","o","u","t","p","u","t","\"",":","5","}">>

\* {"content":"{\"output\":5}"}
J_out5 ==
    <<"{","\"","c","o","n","t","e","n","t","\"",":","\"","{","\\","\"","o","u","t","p","u","t",
      "\\","\"",":","5","}","\"","}">>

\* {"x":1}
C_noout ==
    <<"{","\"","x","\"",":","1","}">>

\* {"content":"{\"x\":1}"}
J_noout ==
    <<"{","\"","c","o","n","t","e","n","t","\"",":","\"","{","\\","\"","x","\\","\"",":","1",
      "}","\"","}">>

\* {"content":"{oops"}
J_oops ==
    <<"{","\"","c","o","n","t","e","n","t","\"",":","\"","{","o","o","p","s","\"","}">>

\* {"content":5}
J_c5 ==
    <<"{","\"","c","o","n","t","e","n","t","\"",":","5","}">>

\* {"content":null}
J_cnull ==
    <<"{","\"","c","o","n","t","e","n","t","\"",":","n","u","l","l","}">>

\* {"event":"message","data":{"content":"lo"}}
S_msg ==
    <<"{","\"","e","v","e","n","t","\"",":","\"","m","e","s","s","a","g","e","\"",",","\"","d",
      "a","t","a","\"",":","{","\"","c","o","n","t","e","n","t","\"",":","\"","l","o","\"","}",
      "}">>

\* {"event":"done"}
S_done ==
    <<"{","\"","e","v","e","n","t","\"",":","\"","d","o","n","e","\"","}">>

\* {"event":"done","data":5}
S_baddata ==
    <<"{","\"","e","v","e","n","t","\"",":","\"","d","o","n","e","\"",",","\"","d","a","t","a",
      "\"",":","5","}">>

JsonOk(v) == [ok |-> TRUE, value |-> v]

JsonDecodeError == [ok |-> FALSE, value |-> None]

JsonLoads(s) ==
    CASE s = C_hel -> JsonOk(PyDict([output |-> PyStr(<<"H","e","l">>)]))
      [] s = J_hel -> JsonOk(PyDict([content |-> PyStr(C_hel)]))
      [] s = J_lo -> JsonOk(PyDict([content |-> PyStr(<<"l","o">>)]))
      [] s = J_meta -> JsonOk(PyDict([debug_url |-> PyStr(<<"h","t","t","p",":","/","/","x">>), conversation_id |-> PyStr(<<"c","1">>)]))
      [] s = J_metabad -> JsonOk(PyDict([debug_url |-> PyInt(5)]))
      [] s = J_err -> JsonOk(PyDict([code |-> PyInt(5000), msg |-> PyStr(<<"b","o","o","m">>)]))
      [] s = J_err2 -> JsonOk(PyDict([code |-> PyInt(7), msg |-> PyStr(<<"n","o">>)]))
      [] s = J_errd -> JsonOk(PyDict([code |-> PyInt(5000), msg |-> PyStr(<<"b","o","o","m">>), detail |-> PyStr(<<"x">>)]))
      [] s = J_empty -> JsonOk(PyDict(<<>>))
      [] s = B_id -> JsonOk(PyDict([data |-> PyDict([id |-> PyStr(<<"c","0">>)])]))
      [] s = B_noid -> JsonOk(PyDict([data |-> PyDict(<<>>)]))
      [] s = B_emptyid -> JsonOk(PyDict([data |-> PyDict([id |-> PyStr(<<>>)])]))
      [] s = B_intid -> JsonOk(PyDict([data |-> PyDict([id |-> PyInt(7)])]))
      [] s = M_hi -> JsonOk(PyDict([text |-> PyStr(<<"h","i">>)]))
      [] s = M_blank -> JsonOk(PyDict([text |-> PyStr(<<>>)]))
      [] s = M_null -> JsonOk(PyDict([text |-> None]))
      [] s = M_int -> JsonOk(PyDict([text |-> PyInt(5)]))
      [] s = M_five -> JsonOk(PyInt(5))
      [] s = C_out5 -> JsonOk(PyDict([output |-> PyInt(5)]))
      [] s = J_out5 -> JsonOk(PyDict([content |-> PyStr(C_out5)]))
      [] s = C_noout -> JsonOk(PyDict([x |-> PyInt(1)]))
      [] s = J_noout -> JsonOk(PyDict([content |-> PyStr(C_noout)]))
      [] s = J_oops -> JsonOk(PyDict([content |-> PyStr(<<"{","o","o","p","s">>)]))
      [] s = J_c5 -> JsonOk(PyDict([content |-> PyInt(5)]))
      [] s = J_cnull -> JsonOk(PyDict([content |-> None]))
      [] s = S_msg -> JsonOk(PyDict([event |-> PyStr(<<"m","e","s","s","a","g","e">>), data |-> PyDict([content |-> PyStr(<<"l","o">>)])]))
      [] s = S_done -> JsonOk(PyDict([event |-> PyStr(<<"d","o","n","e">>)]))
      [] s = S_baddata -> JsonOk(PyDict([event |-> PyStr(<<"d","o","n","e">>), data |-> PyInt(5)]))
      [] OTHER -> JsonDecodeError

(***************************************************************************)
(* Python operators on values                                              *)
(***************************************************************************)
\* Whether `key in v` evaluates; on an int or None it raises TypeError.
SupportsIn(v) == v.t \in {"dict", "str"}

\* key in v: a key of a dict, a substring of a str.
PyIn(key, keyChars, v) ==
    CASE v.t = "dict" -> key \in DOMAIN v.d
      [] v.t = "str" -> Contains(v.s, keyChars)
      [] OTHER -> FALSE

\* str(v)
PyStrOf(v) ==
    CASE v.t = "str" -> v.s
      [] v.t = "int" -> IntToStr(v.n)
      [] v.t = "none" -> <<"N", "o", "n", "e">>

\* d.get(key, default) on a dict
PyGet(v, key, default) == IF key \in DOMAIN v.d THEN v.d[key] ELSE default

(***************************************************************************)
(* The pydantic models of server/models/coze.py: whether construction      *)
(* validates (it raises ValidationError, or TypeError on **v of a value    *)
(* that is no mapping, otherwise).                                         *)
(***************************************************************************)
\* Optional[str]
OptionalStr(v) == v.t \in {"none", "str"}

\* CozeErrorResponse(**v): code: int, msg: str, detail: Optional[Dict]
CozeErrorResponseValid(v) ==
    /\ v.t = "dict"
    /\ "code" \in DOMAIN v.d /\ v.d["code"].t = "int"
    /\ "msg" \in DOMAIN v.d /\ v.d["msg"].t = "str"
    /\ "detail" \in DOMAIN v.d => v.d["detail"].t \in {"none", "dict"}

\* CozeWorkflowEvent(event=..., data=v): data: Optional[Dict[str, Any]]
CozeWorkflowEventValid(v) == v.t \in {"none", "dict"}

\* CozeAIResponse(success=..., ...): the four Optional[str] fields
CozeAIResponseValid(content, debug_url, conversation_id, error_message) ==
    /\ OptionalStr(content)
    /\ OptionalStr(debug_url)
    /\ OptionalStr(conversation_id)
    /\ OptionalStr(error_message)

\* CozeWorkflowChatRequest(...): conversation_id: Optional[str]
CozeWorkflowChatRequestValid(conversation_id) == OptionalStr(conversation_id)

CozeAIResponse(success, content, debug_url, conversation_id, error_message) ==
    [success |-> success, content |-> content, debug_url |-> debug_url,
     conversation_id |-> conversation_id, error_message |-> error_message]

\* Mutant: the error response is built with success=True.
Failure_MarkedSuccess(m) == CozeAIResponse(TRUE, None, None, None, PyStr(m))

\* CozeAIResponse(success=False, error_message=m)
Failure(m) == CozeAIResponse(FALSE, None, None, None, PyStr(m))

\* f"API 错误 {error.code}: {error.msg}"
ApiErrorMessage(error) ==
    MSG_API_ERROR \o IntToStr(error["code"].n) \o MSG_SEP \o error["msg"].s

(***************************************************************************)
(* CozeService._parse_stream_response: the loop body as a function of the  *)
(* method's locals.  `returned` is the response of a return statement      *)
(* inside the loop (None while the loop goes on), `stop` is the break.     *)
(***************************************************************************)
ParserLocals(current_event, events, content_parts, debug_url, conversation_id) ==
    [current_event |-> current_event, events |-> events,
     content_parts |-> content_parts, debug_url |-> debug_url,
     conversation_id |-> conversation_id, returned |-> None, stop |-> FALSE]

\* The locals before the first line.
InitialLocals == ParserLocals(None, <<>>, <<>>, None, None)

\* The part appended for event_data["content"].
ContentPart(content) ==
    IF content.t = "str" /\ StartsWith(content.s, <<"{">>)
    THEN LET content_json == JsonLoads(content.s)
         IN  IF content_json.ok /\ "output" \in DOMAIN content_json.value.d
             THEN content_json.value.d["output"]
             ELSE content
    ELSE PyStr(PyStrOf(content))

\* Mutant: only the event name marks an error, the payload is not looked at.
IsErrorEvent_ByNameOnly(current_event, event_data) == current_event = PyStr(EV_ERROR)

\* The test that sends a payload to the error branch.
IsErrorEvent(current_event, event_data) ==
    \/ current_event = PyStr(EV_ERROR)
    \/ /\ PyIn("code", KEY_CODE, event_data)
       /\ PyIn("msg", KEY_MSG, event_data)

\* event=current_event or "unknown"
EventName(current_event) ==
    IF PyTruthy(current_event) THEN current_event.s ELSE EV_UNKNOWN

\* Mutant: a "done" event sets debug_url only.
DoneMetadata_DropsConversationId(st, event_data) ==
    [st EXCEPT !.debug_url = IF "debug_url" \in DOMAIN event_data.d
                             THEN event_data.d["debug_url"] ELSE @]

\* The metadata of a "done" event.
DoneMetadata(st, event_data) ==
    [st EXCEPT
       !.debug_url = IF "debug_url" \in DOMAIN event_data.d
                     THEN event_data.d["debug_url"] ELSE @,
       !.conversation_id = IF "conversation_id" \in DOMAIN event_data.d
                           THEN event_data.d["conversation_id"] ELSE @]

\* Mutant: a content is appended under every event name.
RecordEvent_ContentUnderAnyName(st, event_data) ==
    LET event == [event |-> EventName(st.current_event), data |-> event_data]
        st1 == [st EXCEPT !.events = Append(@, event)]
    IN  IF "content" \in DOMAIN event_data.d
        THEN [st1 EXCEPT !.content_parts = Append(@, ContentPart(event_data.d["content"]))]
        ELSE IF st.current_event = PyStr(EV_DONE)
        THEN DoneMetadata(st1, event_data)
        ELSE st1

\* Mutant: the content is appended but the frame is not recorded.
RecordEvent_DropsFrame(st, event_data) ==
    IF st.current_event = PyStr(EV_COMPLETED)
    THEN IF "content" \in DOMAIN event_data.d
         THEN [st EXCEPT !.content_parts = Append(@, ContentPart(event_data.d["content"]))]
         ELSE st
    ELSE IF st.current_event = PyStr(EV_DONE)
    THEN DoneMetadata(st, event_data)
    ELSE st

\* A normal event: recorded, then its content or metadata extracted.
RecordEvent(st, event_data) ==
    LET event == [event |-> EventName(st.current_event), data |-> event_data]
        st1 == [st EXCEPT !.events = Append(@, event)]
    IN  IF st.current_event = PyStr(EV_COMPLETED)
        THEN IF "content" \in DOMAIN event_data.d
             THEN [st1 EXCEPT !.content_parts =
                                  Append(@, ContentPart(event_data.d["content"]))]
             ELSE st1
        ELSE IF st.current_event = PyStr(EV_DONE)
        THEN DoneMetadata(st1, event_data)
        ELSE st1

\* A payload that fails CozeErrorResponse validation is recorded as an
\* ordinary event.
HandleEventData_RecordsInvalidError(st, event_data) ==
    IF st.current_event # PyStr(EV_ERROR) /\ ~SupportsIn(event_data)
    THEN st
    ELSE IF IsErrorEvent(st.current_event, event_data)
            /\ CozeErrorResponseValid(event_data)
    THEN [st EXCEPT !.returned = Failure(ApiErrorMessage(event_data.d))]
    ELSE IF ~CozeWorkflowEventValid(event_data)
    THEN st
    ELSE RecordEvent(st, event_data)

\* A payload that fails CozeErrorResponse validation ends the parse with the
\* failure of the outer except clause.
HandleEventData_AbortsOnException(st, event_data) ==
    IF st.current_event # PyStr(EV_ERROR) /\ ~SupportsIn(event_data)
    THEN [st EXCEPT !.returned = Failure(MSG_PARSE_FAILED \o EXC_TYPE_ERROR)]
    ELSE IF IsErrorEvent(st.current_event, event_data)
    THEN IF CozeErrorResponseValid(event_data)
         THEN [st EXCEPT !.returned = Failure(ApiErrorMessage(event_data.d))]
         ELSE [st EXCEPT !.returned =
                   Failure(MSG_PARSE_FAILED \o EXC_VALIDATION_ERROR)]
    ELSE IF ~CozeWorkflowEventValid(event_data)
    THEN [st EXCEPT !.returned = Failure(MSG_PARSE_FAILED \o EXC_VALIDATION_ERROR)]
    ELSE RecordEvent(st, event_data)

\* The try block of a data line whose text parsed.  Every exception raised
\* here (TypeError of `in`, ValidationError of a model) is caught by
\* `except Exception: continue`, which leaves the locals as they were.
HandleEventData(st, event_data) ==
    IF st.current_event # PyStr(EV_ERROR) /\ ~SupportsIn(event_data)
    THEN st
    ELSE IF IsErrorEvent(st.current_event, event_data)
    THEN IF CozeErrorResponseValid(event_data)
         THEN [st EXCEPT !.returned = Failure(ApiErrorMessage(event_data.d))]
         ELSE st
    ELSE IF ~CozeWorkflowEventValid(event_data)
    THEN st
    ELSE RecordEvent(st, event_data)

\* Mutant: "[DONE]" is not tested for; it goes to json.loads like any text.
HandleDataLine_NoTerminator(st, data_str) ==
    LET parsed == JsonLoads(data_str)
    IN  IF parsed.ok THEN HandleEventData(st, parsed.value) ELSE st

\* Mutant: a text that is not JSON ends the parse with a failure.
HandleDataLine_AbortsOnBadJson(st, data_str) ==
    IF Strip(data_str) = DONE_MARK
    THEN [st EXCEPT !.stop = TRUE]
    ELSE LET parsed == JsonLoads(data_str)
         IN  IF parsed.ok
             THEN HandleEventData(st, parsed.value)
             ELSE [st EXCEPT !.returned = Failure(MSG_PARSE_FAILED)]

\* A line that starts with "data: ".
HandleDataLine(st, data_str) ==
    IF Strip(data_str) = DONE_MARK
    THEN [st EXCEPT !.stop = TRUE]
    ELSE LET parsed == JsonLoads(data_str)
         IN  IF parsed.ok THEN HandleEventData(st, parsed.value) ELSE st

\* A bare error whose validation fails is skipped like a data line.
HandleBareJson_SkipsInvalidError(st, line) ==
    LET parsed == JsonLoads(line)
    IN  IF ~parsed.ok
        THEN st
        ELSE IF "code" \in DOMAIN parsed.value.d /\ "msg" \in DOMAIN parsed.value.d
                /\ CozeErrorResponseValid(parsed.value)
        THEN [st EXCEPT !.returned = Failure(ApiErrorMessage(parsed.value.d))]
        ELSE st

\* A line that starts with "{" and ends with "}".  A ValidationError of
\* CozeErrorResponse is not a JSONDecodeError: it reaches the method's outer
\* except.
HandleBareJson(st, line) ==
    LET parsed == JsonLoads(line)
    IN  IF ~parsed.ok
        THEN st
        ELSE IF "code" \in DOMAIN parsed.value.d /\ "msg" \in DOMAIN parsed.value.d
        THEN IF CozeErrorResponseValid(parsed.value)
             THEN [st EXCEPT !.returned = Failure(ApiErrorMessage(parsed.value.d))]
             ELSE [st EXCEPT !.returned =
                                 Failure(MSG_PARSE_FAILED \o EXC_VALIDATION_ERROR)]
        ELSE st

\* Mutant: line[6:], which keeps the blank of the prefix.
EventOf_OffByOne(line) == Drop(line, Len(EVENT_PREFIX) - 1)

\* line[7:] of an "event: " line
EventOf(line) == Drop(line, Len(EVENT_PREFIX))

\* Mutant: a blank line ends the loop.
ProcessLine_BlankStops(st, raw) ==
    LET line == Strip(raw)
    IN  IF line = <<>>
        THEN [st EXCEPT !.stop = TRUE]
        ELSE IF StartsWith(line, EVENT_PREFIX)
        THEN [st EXCEPT !.current_event = PyStr(EventOf(line))]
        ELSE IF StartsWith(line, DATA_PREFIX)
        THEN HandleDataLine(st, Drop(line, Len(DATA_PREFIX)))
        ELSE IF StartsWith(line, <<"{">>) /\ EndsWith(line, <<"}">>)
        THEN HandleBareJson(st, line)
        ELSE st

\* One iteration of `for line in lines`.
ProcessLine(st, raw) ==
    LET line == Strip(raw)
    IN  IF line = <<>>
        THEN st
        ELSE IF StartsWith(line, EVENT_PREFIX)
        THEN [st EXCEPT !.current_event = PyStr(EventOf(line))]
        ELSE IF StartsWith(line, DATA_PREFIX)
        THEN HandleDataLine(st, Drop(line, Len(DATA_PREFIX)))
        ELSE IF StartsWith(line, <<"{">>) /\ EndsWith(line, <<"}">>)
        THEN HandleBareJson(st, line)
        ELSE st

\* Mutant: `and not events` is missing, an answer without text is a failure.
AssembleResponse_EmptyIsFailure(st) ==
    IF \E i \in 1..Len(st.content_parts) : st.content_parts[i].t # "str"
    THEN Failure(MSG_PARSE_FAILED \o EXC_TYPE_ERROR)
    ELSE LET full_content == IF st.content_parts # <<>>
                             THEN PyStr(Join(st.content_parts)) ELSE None
         IN  IF ~PyTruthy(full_content)
             THEN Failure(MSG_NO_VALID_RESPONSE)
             ELSE IF ~CozeAIResponseValid(full_content, st.debug_url,
                                          st.conversation_id, None)
             THEN Failure(MSG_PARSE_FAILED \o EXC_VALIDATION_ERROR)
             ELSE CozeAIResponse(TRUE, full_content, st.debug_url,
                                 st.conversation_id, None)

\* Mutant: the check for an empty answer is missing.
AssembleResponse_NoEmptyCheck(st) ==
    IF \E i \in 1..Len(st.content_parts) : st.content_parts[i].t # "str"
    THEN Failure(MSG_PARSE_FAILED \o EXC_TYPE_ERROR)
    ELSE LET full_content == IF st.content_parts # <<>>
                             THEN PyStr(Join(st.content_parts)) ELSE None
         IN  IF ~CozeAIResponseValid(full_content, st.debug_url,
                                     st.conversation_id, None)
             THEN Failure(MSG_PARSE_FAILED \o EXC_VALIDATION_ERROR)
             ELSE CozeAIResponse(TRUE, full_content, st.debug_url,
                                 st.conversation_id, None)

\* The statements after the loop.
AssembleResponse(st) ==
    IF \E i \in 1..Len(st.content_parts) : st.content_parts[i].t # "str"
    THEN Failure(MSG_PARSE_FAILED \o EXC_TYPE_ERROR)
    ELSE LET full_content == IF st.content_parts # <<>>
                             THEN PyStr(Join(st.content_parts)) ELSE None
         IN  IF ~PyTruthy(full_content) /\ st.events = <<>>
             THEN Failure(MSG_NO_VALID_RESPONSE)
             ELSE IF ~CozeAIResponseValid(full_content, st.debug_url,
                                          st.conversation_id, None)
             THEN Failure(MSG_PARSE_FAILED \o EXC_VALIDATION_ERROR)
             ELSE CozeAIResponse(TRUE, full_content, st.debug_url,
                                 st.conversation_id, None)

\* The whole method on the lines of a decoded body.
RECURSIVE ParseFrom(_, _)
ParseFrom(st, ls) ==
    IF ls = <<>>
    THEN AssembleResponse(st)
    ELSE LET st1 == ProcessLine(st, Head(ls))
         IN  IF st1.returned # None THEN st1.returned
             ELSE IF st1.stop THEN AssembleResponse(st1)
             ELSE ParseFrom(st1, Tail(ls))

ParseStreamResponse(ls) == ParseFrom(InitialLocals, ls)

\* The body of an error response is never looked at.
HandleErrorResponse_AlwaysRaw(status_code, text) ==
    Failure(MSG_HTTP \o IntToStr(status_code) \o MSG_SEP \o text)

\* CozeService._handle_error_response
HandleErrorResponse(status_code, text) ==
    LET error_data == JsonLoads(text)
    IN  IF error_data.ok /\ CozeErrorResponseValid(error_data.value)
        THEN Failure(ApiErrorMessage(error_data.value.d))
        ELSE Failure(MSG_HTTP \o IntToStr(status_code) \o MSG_SEP \o text)

\* Mutant: the status code of the create response is not checked.
CreateConversation_IgnoresStatus(outcome) ==
    IF outcome.kind # "response"
    THEN None
    ELSE LET data == JsonLoads(outcome.text)
         IN  IF ~data.ok \/ data.value.t # "dict"
             THEN None
             ELSE LET inner == PyGet(data.value, "data", PyDict(<<>>))
                  IN  IF inner.t # "dict" THEN None ELSE PyGet(inner, "id", None)

\* CozeService._create_conversation, on the outcome of the POST.
CreateConversation(outcome) ==
    IF outcome.kind # "response" \/ outcome.status_code # 200
    THEN None
    ELSE LET data == JsonLoads(outcome.text)
         IN  IF ~data.ok \/ data.value.t # "dict"
             THEN None
             ELSE LET inner == PyGet(data.value, "data", PyDict(<<>>))
                  IN  IF inner.t # "dict" THEN None ELSE PyGet(inner, "id", None)

(***************************************************************************)
(* What the environment supplies                                           *)
(***************************************************************************)
\* Values of COZE_ACCESS_TOKEN, COZE_WORKFLOW_ID, COZE_APP_ID ("" by default).
SettingsValues ==
    [access_token : {<<>>, <<"t", "o", "k">>},
     workflow_id : {<<>>, <<"w", "f">>},
     app_id : {<<>>, <<"a", "p", "p">>}]

HttpResponse(status_code, text) ==
    [kind |-> "response", status_code |-> status_code, text |-> text]

\* Outcomes of the POST to /v1/conversation/create.
CreateOutcomes ==
    {HttpResponse(200, b) : b \in {B_id, B_noid, B_emptyid, B_intid, B_html}}
        \cup {HttpResponse(500, B_html), HttpResponse(500, B_id)}
        \cup {[kind |-> "timeout"], [kind |-> "error"]}

\* Lines of a body of /v1/workflows/chat, as split on "\n".
StreamLines ==
    {<<" ", "\r">>,
     <<":", " ", "p", "i", "n", "g">>,
     EVENT_PREFIX \o EV_COMPLETED,
     EVENT_PREFIX \o EV_DONE,
     EVENT_PREFIX \o EV_ERROR,
     EVENT_PREFIX \o <<"p", "i", "n", "g">>,
     DATA_PREFIX \o DONE_MARK \o <<"\r">>,
     DATA_PREFIX \o J_bad,
     DATA_PREFIX \o J_hel,
     DATA_PREFIX \o J_lo,
     DATA_PREFIX \o J_meta,
     DATA_PREFIX \o J_metabad,
     DATA_PREFIX \o J_empty,
     DATA_PREFIX \o J_err,
     DATA_PREFIX \o J_err2,
     DATA_PREFIX \o J_errd,
     J_err}

\* response_str.split('\n') of a decoded body: never an empty list.
Bodies == UNION {[1..n -> StreamLines] : n \in 1..MaxLines}

\* Outcomes of the POST to /v1/workflows/chat.  `decodable` is whether the
\* body is valid UTF-8; `lines` is the decoded body split on "\n".
WorkflowOutcomes ==
    {[kind |-> "timeout"], [kind |-> "error"]}
        \cup {HttpResponse(401, b) : b \in {J_err2, B_html}}
        \cup {HttpResponse(500, b) : b \in {J_errd, J_empty}}
        \cup {[kind |-> "stream", decodable |-> FALSE, lines |-> <<>>]}
        \cup {[kind |-> "stream", decodable |-> TRUE, lines |-> b] : b \in Bodies}

\* Lines of the bodies offered to an exchange that an event started.
RelayStreamLines ==
    {EVENT_PREFIX \o EV_COMPLETED,
     EVENT_PREFIX \o EV_DONE,
     DATA_PREFIX \o J_hel,
     DATA_PREFIX \o J_meta,
     DATA_PREFIX \o J_err}

RelayBodies == UNION {[1..n -> RelayStreamLines] : n \in 1..MaxLines}

RelayWorkflowOutcomes ==
    {[kind |-> "timeout"], [kind |-> "error"], HttpResponse(401, J_err2)}
        \cup {[kind |-> "stream", decodable |-> TRUE, lines |-> b] : b \in RelayBodies}

\* The answers given to each of two concurrent exchanges.
PairLines ==
    {EVENT_PREFIX \o EV_COMPLETED,
     DATA_PREFIX \o J_hel,
     DATA_PREFIX \o J_err}

PairBodies == UNION {[1..n -> PairLines] : n \in 1..MaxLines}

PairWorkflowOutcomes ==
    {[kind |-> "timeout"], HttpResponse(401, J_err2)}
        \cup {[kind |-> "stream", decodable |-> TRUE, lines |-> b] : b \in PairBodies}

\* The events handed to handle_feishu_event: event.model_dump() of a
\* FeishuWebhookEvent, whose header and event are dicts.
Headers ==
    {PyDict(<<>>),
     PyDict([event_type |-> PyStr(EVT_MESSAGE_RECEIVE), event_id |-> PyStr(EVENT_ID)]),
     PyDict([event_type |-> PyStr(EVT_MESSAGE_RECEIVE)]),
     PyDict([event_type |-> PyStr(EVT_OTHER), event_id |-> PyStr(EVENT_ID)]),
     PyDict([event_type |-> PyInt(5)])}

Contents ==
    {PyStr(c) : c \in {M_hi, M_raw, M_blank, M_null, M_int, M_five, J_empty, <<>>}}
        \cup {PyInt(3)}

EventPayloads ==
    {PyDict(<<>>), PyDict([message |-> PyStr(<<"x">>)]), PyDict([message |-> PyDict(<<>>)])}
        \cup {PyDict([message |-> PyDict([content |-> c])]) : c \in Contents}

FeishuEvents ==
    {PyDict([schema_ |-> None, header |-> h, event |-> e]) : h \in Headers, e \in EventPayloads}

(***************************************************************************)
(* State                                                                   *)
(***************************************************************************)
VARIABLES
    pc,                    \* where the exchange is
    settings,              \* CozeService.access_token, workflow_id, app_id
    requests,              \* the POSTs issued so far, in order
    create_outcome,        \* what the create POST ended with, None before that
    chat_conversation_id,  \* conversation_id of chat_with_workflow
    workflow_outcome,      \* what the workflow POST ended with, None before that
    lines,                 \* lines of _parse_stream_response
    idx,                   \* index in `lines` of the line the loop is at
    current_event,         \* the locals of _parse_stream_response
    events,
    content_parts,
    debug_url,
    conversation_id,
    result,                \* the CozeAIResponse returned, None before that
    event,                 \* the event handed to handle_feishu_event, None without one
    ack,                   \* what handle_feishu_event returned, None before that
    yielded,               \* the events chat_stream has yielded so far
    request_body,          \* `body` of feishu_webhook: the JSON of the request being served
    http_response,         \* the response to that request, None before that
    statuses,              \* the status codes of the requests served before
    other                  \* a second exchange running on the same CozeService

parser == <<lines, idx, current_event, events, content_parts, debug_url, conversation_id>>

relay == <<event, ack>>

outer == <<yielded, request_body, http_response, statuses, other>>

vars == <<pc, settings, requests, create_outcome, chat_conversation_id, workflow_outcome, lines,
          idx, current_event, events, content_parts, debug_url, conversation_id, result, event,
          ack, yielded, request_body, http_response, statuses, other>>

\* Nothing but the exchange at hand is going on.
OuterIdle ==
    /\ yielded = <<>>
    /\ request_body = None
    /\ http_response = None
    /\ statuses = {}
    /\ other = None

Locals == ParserLocals(current_event, events, content_parts, debug_url, conversation_id)

Init ==
    /\ pc = "start"
    /\ settings \in SettingsValues
    /\ requests = <<>>
    /\ create_outcome = None
    /\ chat_conversation_id = None
    /\ workflow_outcome = None
    /\ lines = <<>>
    /\ idx = 0
    /\ current_event = None
    /\ events = <<>>
    /\ content_parts = <<>>
    /\ debug_url = None
    /\ conversation_id = None
    /\ result = None
    /\ event = None
    /\ ack = None
    /\ OuterIdle

\* A failed exchange that is started over instead of being returned.
Return_RetriesOnFailure(r) ==
    IF r.success
    THEN pc' = "done" /\ result' = r
    ELSE pc' = "start" /\ result' = None

\* return r
Return(r) == pc' = "done" /\ result' = r

\* chat_with_workflow that checks the token and the workflow id only.
ChatWithWorkflow_NoAppIdCheck ==
    /\ pc = "start"
    /\ IF settings.access_token = <<>>
       THEN Return(Failure(MSG_NO_TOKEN)) /\ UNCHANGED requests
       ELSE IF settings.workflow_id = <<>>
       THEN Return(Failure(MSG_NO_WORKFLOW)) /\ UNCHANGED requests
       ELSE /\ requests' = Append(requests, [op |-> "create_conversation"])
            /\ pc' = "creating"
            /\ UNCHANGED result
    /\ UNCHANGED <<settings, create_outcome, chat_conversation_id, workflow_outcome>>
    /\ UNCHANGED parser
    /\ UNCHANGED relay
    /\ UNCHANGED outer

\* chat_with_workflow up to `await self._create_conversation()` sending its POST.
ChatWithWorkflow ==
    /\ pc = "start"
    /\ IF settings.access_token = <<>>
       THEN Return(Failure(MSG_NO_TOKEN)) /\ UNCHANGED requests
       ELSE IF settings.workflow_id = <<>> \/ settings.app_id = <<>>
       THEN Return(Failure(MSG_NO_WORKFLOW)) /\ UNCHANGED requests
       ELSE /\ requests' = Append(requests, [op |-> "create_conversation"])
            /\ pc' = "creating"
            /\ UNCHANGED result
    /\ UNCHANGED <<settings, create_outcome, chat_conversation_id, workflow_outcome>>
    /\ UNCHANGED parser
    /\ UNCHANGED relay
    /\ UNCHANGED outer

\* The workflow request of chat_with_workflow.
WorkflowRequest(cid) ==
    [op |-> "workflow_chat", workflow_id |-> settings.workflow_id,
     app_id |-> settings.app_id, conversation_id |-> cid]

\* The create POST ends; chat_with_workflow goes on to its own POST.
CreateConversationReturns ==
    /\ pc = "creating"
    /\ \E outcome \in CreateOutcomes :
         LET cid == CreateConversation(outcome)
         IN  /\ create_outcome' = outcome
             /\ chat_conversation_id' = cid
             /\ IF ~PyTruthy(cid)
                THEN Return(Failure(MSG_CANNOT_CREATE)) /\ UNCHANGED requests
                ELSE IF ~CozeWorkflowChatRequestValid(cid)
                THEN pc' = "raised" /\ UNCHANGED <<requests, result>>
                ELSE /\ requests' = Append(requests, WorkflowRequest(cid))
                     /\ pc' = "sending"
                     /\ UNCHANGED result
    /\ UNCHANGED <<settings, workflow_outcome>>
    /\ UNCHANGED parser
    /\ UNCHANGED relay
    /\ UNCHANGED outer

\* Both except clauses answer alike.
TransportFailure_NoTimeoutClause(outcome) ==
    Failure(MSG_REQUEST_FAILED \o EXC_CONNECT_ERROR)

\* The except clauses of chat_with_workflow, on an exception of the POST.
TransportFailure(outcome) ==
    IF outcome.kind = "timeout"
    THEN Failure(MSG_TIMEOUT)
    ELSE Failure(MSG_REQUEST_FAILED \o EXC_CONNECT_ERROR)

\* The workflow POST ends: an exception, an error status, or a body whose
\* parsing starts.
WorkflowReturns ==
    /\ pc = "sending"
    /\ \E outcome \in (IF other # None THEN PairWorkflowOutcomes
                       ELSE IF event = None THEN WorkflowOutcomes
                       ELSE RelayWorkflowOutcomes) :
         /\ workflow_outcome' = outcome
         /\ CASE outcome.kind \in {"timeout", "error"} ->
                Return(TransportFailure(outcome)) /\ UNCHANGED parser
           [] outcome.kind = "response" ->
                Return(HandleErrorResponse(outcome.status_code, outcome.text))
                    /\ UNCHANGED parser
           [] outcome.kind = "stream" /\ ~outcome.decodable ->
                Return(Failure(MSG_PARSE_FAILED \o EXC_UNICODE_ERROR))
                    /\ UNCHANGED parser
           [] outcome.kind = "stream" /\ outcome.decodable ->
                /\ lines' = outcome.lines
                /\ idx' = 1
                /\ pc' = "parsing"
                /\ UNCHANGED <<current_event, events, content_parts, debug_url,
                               conversation_id, result>>
    /\ UNCHANGED <<settings, requests, create_outcome, chat_conversation_id>>
    /\ UNCHANGED relay
    /\ UNCHANGED outer

\* One iteration of the loop of _parse_stream_response.
ParseLine ==
    /\ pc = "parsing"
    /\ LET st == ProcessLine(Locals, lines[idx])
       IN  /\ current_event' = st.current_event
           /\ events' = st.events
           /\ content_parts' = st.content_parts
           /\ debug_url' = st.debug_url
           /\ conversation_id' = st.conversation_id
           /\ IF st.returned # None
              THEN Return(st.returned) /\ UNCHANGED idx
              ELSE IF st.stop \/ idx = Len(lines)
              THEN pc' = "assembling" /\ UNCHANGED <<idx, result>>
              ELSE pc' = "parsing" /\ idx' = idx + 1 /\ UNCHANGED result
    /\ UNCHANGED <<settings, requests, create_outcome, chat_conversation_id, workflow_outcome,
                   lines>>
    /\ UNCHANGED relay
    /\ UNCHANGED outer

\* The statements after the loop, and the return of chat_with_workflow.
Assemble ==
    /\ pc = "assembling"
    /\ Return(AssembleResponse(Locals))
    /\ UNCHANGED <<settings, requests, create_outcome, chat_conversation_id, workflow_outcome>>
    /\ UNCHANGED parser
    /\ UNCHANGED relay
    /\ UNCHANGED outer

Next ==
    \/ ChatWithWorkflow
    \/ CreateConversationReturns
    \/ WorkflowReturns
    \/ ParseLine
    \/ Assemble

Spec == Init /\ [][Next]_vars

(***************************************************************************)
(* server/services/webhook_handler.py                                      *)
(***************************************************************************)
\* extract_message_content.  `.get` on a value that is no dict raises
\* AttributeError, which the outer except turns into None.
ExtractMessageContent(e) ==
    LET event_data == PyGet(e, "event", PyDict(<<>>))
    IN  IF event_data.t # "dict" THEN None
        ELSE LET message == PyGet(event_data, "message", PyDict(<<>>))
             IN  IF message.t # "dict" THEN None
                 ELSE LET content == PyGet(message, "content", PyStr(<<>>))
                      IN  IF content.t # "str" THEN None
                          ELSE LET content_data == JsonLoads(content.s)
                               IN  IF ~content_data.ok THEN content
                                   ELSE IF content_data.value.t # "dict" THEN None
                                   ELSE PyGet(content_data.value, "text", PyStr(<<>>))

\* An absent event_type is taken for a message.
EventType_DefaultsToMessage(e) ==
    PyGet(PyGet(e, "header", PyDict(<<>>)), "event_type", PyStr(EVT_MESSAGE_RECEIVE))

\* header.get("event_type", "unknown")
EventType(e) == PyGet(PyGet(e, "header", PyDict(<<>>)), "event_type", PyStr(UNKNOWN))

\* header.get("event_id", "unknown")
EventIdOf(e) == PyGet(PyGet(e, "header", PyDict(<<>>)), "event_id", PyStr(UNKNOWN))

\* Only None counts as no content.
HasMessageContent_NotNone(message_content) == message_content # None

\* not (not message_content)
HasMessageContent(message_content) == PyTruthy(message_content)

\* The dict returned when no content was extracted.
ExtractionFailure(e) ==
    [success |-> FALSE, event_type |-> EventType(e), event_id |-> EventIdOf(e),
     error |-> PyStr(MSG_CANNOT_EXTRACT)]

\* The dict returned for the other event types.
NotProcessed(e) ==
    [success |-> TRUE, event_type |-> EventType(e), event_id |-> EventIdOf(e),
     message |-> PyStr(MSG_EVENT_TYPE \o PyStrOf(EventType(e)) \o MSG_NOT_PROCESSED)]

\* The answer is attached whether or not it succeeded.
AiAcknowledgement_AlwaysAttaches(e, ai_response) ==
    [success |-> ai_response.success, event_type |-> EventType(e),
     event_id |-> EventIdOf(e), message |-> PyStr(MSG_AI_DONE),
     ai_response |-> [content |-> ai_response.content,
                      conversation_id |-> ai_response.conversation_id]]

\* The dict returned for the CozeAIResponse of chat_with_workflow.
AiAcknowledgement(e, ai_response) ==
    IF ai_response.success
    THEN [success |-> TRUE, event_type |-> EventType(e), event_id |-> EventIdOf(e),
          message |-> PyStr(MSG_AI_DONE),
          ai_response |-> [content |-> ai_response.content,
                           conversation_id |-> ai_response.conversation_id]]
    ELSE [success |-> FALSE, event_type |-> EventType(e), event_id |-> EventIdOf(e),
          error |-> PyStr(MSG_AI_FAILED \o PyStrOf(ai_response.error_message))]

\* The dict returned when chat_with_workflow raised.
AiExceptionAcknowledgement(e, exc) ==
    [success |-> FALSE, event_type |-> EventType(e), event_id |-> EventIdOf(e),
     error |-> PyStr(MSG_AI_EXCEPTION \o exc)]

InitRelay ==
    /\ pc = "received"
    /\ event \in FeishuEvents
    /\ ack = None
    /\ OuterIdle
    /\ settings \in SettingsValues
    /\ requests = <<>>
    /\ create_outcome = None
    /\ chat_conversation_id = None
    /\ workflow_outcome = None
    /\ lines = <<>>
    /\ idx = 0
    /\ current_event = None
    /\ events = <<>>
    /\ content_parts = <<>>
    /\ debug_url = None
    /\ conversation_id = None
    /\ result = None

exchange ==
    <<settings, requests, create_outcome, chat_conversation_id, workflow_outcome, result>>

\* handle_feishu_event up to its return or to `await chat_with_workflow`.
\* message_content[:100] raises TypeError on a content that is no str.
HandleFeishuEvent ==
    /\ pc = "received"
    /\ IF EventType(event) = PyStr(EVT_MESSAGE_RECEIVE)
       THEN LET message_content == ExtractMessageContent(event)
            IN  IF ~HasMessageContent(message_content)
                THEN pc' = "acked" /\ ack' = ExtractionFailure(event)
                ELSE IF message_content.t # "str"
                THEN pc' = "handler_raised" /\ UNCHANGED ack
                ELSE pc' = "start" /\ UNCHANGED ack
       ELSE pc' = "acked" /\ ack' = NotProcessed(event)
    /\ UNCHANGED <<event, exchange>>
    /\ UNCHANGED outer
    /\ UNCHANGED parser

\* chat_with_workflow returned its CozeAIResponse to handle_feishu_event.
AiResponseReturned ==
    /\ pc = "done"
    /\ event # None
    /\ pc' = "acked"
    /\ ack' = AiAcknowledgement(event, result)
    /\ UNCHANGED <<event, exchange>>
    /\ UNCHANGED outer
    /\ UNCHANGED parser

\* chat_with_workflow raised: the except clause of handle_feishu_event.
AiExceptionCaught ==
    /\ pc = "raised"
    /\ event # None
    /\ pc' = "acked"
    /\ ack' = AiExceptionAcknowledgement(event, EXC_VALIDATION_ERROR)
    /\ UNCHANGED <<event, exchange>>
    /\ UNCHANGED outer
    /\ UNCHANGED parser

NextRelay ==
    \/ HandleFeishuEvent
    \/ AiResponseReturned
    \/ AiExceptionCaught
    \/ Next

SpecRelay == InitRelay /\ [][NextRelay]_vars

(***************************************************************************)
(* _parse_stream_response on its own: the exchange has just received a 200 *)
(* body and the parser starts on its lines                                 *)
(***************************************************************************)
ParserEntered(bodies) ==
    /\ pc = "parsing"
    /\ settings = [access_token |-> <<"t", "o", "k">>, workflow_id |-> <<"w", "f">>,
                   app_id |-> <<"a", "p", "p">>]
    /\ create_outcome = HttpResponse(200, B_id)
    /\ chat_conversation_id = PyStr(<<"c", "0">>)
    /\ requests = <<[op |-> "create_conversation"], WorkflowRequest(PyStr(<<"c", "0">>))>>
    /\ \E b \in bodies :
         /\ workflow_outcome = [kind |-> "stream", decodable |-> TRUE, lines |-> b]
         /\ lines = b
    /\ idx = 1
    /\ current_event = None
    /\ events = <<>>
    /\ content_parts = <<>>
    /\ debug_url = None
    /\ conversation_id = None
    /\ result = None
    /\ event = None
    /\ ack = None
    /\ OuterIdle

NextParser == ParseLine \/ Assemble

\* Bodies with lines outside the event:/data: forms.
BareLines ==
    {J_err,
     <<" ">> \o J_err2 \o <<"\r">>,
     J_errd,
     J_empty,
     J_badbrace,
     EVENT_PREFIX \o EV_COMPLETED,
     DATA_PREFIX \o J_hel,
     DATA_PREFIX \o DONE_MARK}

BareBodies == UNION {[1..n -> BareLines] : n \in 1..MaxLines}

InitBare == ParserEntered(BareBodies)

SpecBare == InitBare /\ [][NextParser]_vars

\* Bodies of content frames: every form of `content` the parser tells apart.
ContentLines ==
    {EVENT_PREFIX \o EV_COMPLETED,
     EVENT_PREFIX \o EV_DONE,
     DATA_PREFIX \o J_hel,
     DATA_PREFIX \o J_lo,
     DATA_PREFIX \o J_out5,
     DATA_PREFIX \o J_noout,
     DATA_PREFIX \o J_oops,
     DATA_PREFIX \o J_c5,
     DATA_PREFIX \o J_cnull}

ContentBodies == UNION {[1..n -> ContentLines] : n \in 1..MaxLines}

InitContent == ParserEntered(ContentBodies)

SpecContent == InitContent /\ [][NextParser]_vars

\* Bodies of frames of every kind, blank lines and the terminator.
FrameLines ==
    {<<>>,
     <<" ", "\r">>,
     EVENT_PREFIX \o <<"p", "i", "n", "g">>,
     EVENT_PREFIX \o EV_COMPLETED,
     EVENT_PREFIX \o EV_DONE,
     DATA_PREFIX \o J_hel,
     DATA_PREFIX \o J_meta,
     DATA_PREFIX \o J_empty,
     DATA_PREFIX \o J_err,
     DATA_PREFIX \o DONE_MARK}

FrameBodies == UNION {[1..n -> FrameLines] : n \in 1..MaxLines}

InitFrames == ParserEntered(FrameBodies)

SpecFrames == InitFrames /\ [][NextParser]_vars

(***************************************************************************)
(* CozeService.chat_stream: the streaming mode.  The generator's position  *)
(* is pc: "stream_start" on entry, "stream_sending" while the POST is in   *)
(* flight, "streaming" inside the loop over the lines, "stream_ended"      *)
(* once the generator is exhausted.                                        *)
(***************************************************************************)
\* CozeWorkflowEvent(**event_data) as chat_stream builds it.
StreamEvent(event_data) ==
    [event |-> event_data.d["event"].s, data |-> PyGet(event_data, "data", None)]

\* CozeWorkflowEvent(**event_data) raises neither TypeError nor ValidationError.
StreamEventValid(event_data) ==
    /\ event_data.t = "dict"
    /\ "event" \in DOMAIN event_data.d
    /\ event_data.d["event"].t = "str"
    /\ "data" \in DOMAIN event_data.d => CozeWorkflowEventValid(event_data.d["data"])

StreamSkip == [yield |-> None, stop |-> FALSE]

\* Mutant: a payload that builds no frame is skipped.
StreamStep_SkipsUnbuildable(line) ==
    IF Strip(line) = <<>> THEN StreamSkip
    ELSE IF StartsWith(line, DATA_PREFIX)
    THEN LET data_str == Drop(line, Len(DATA_PREFIX))
         IN  IF Strip(data_str) = DONE_MARK THEN [yield |-> None, stop |-> TRUE]
             ELSE LET parsed == JsonLoads(Strip(data_str))
                  IN  IF parsed.ok /\ StreamEventValid(parsed.value)
                      THEN [yield |-> StreamEvent(parsed.value), stop |-> FALSE]
                      ELSE StreamSkip
    ELSE StreamSkip

\* One pass of the loop over response.aiter_lines().  json.loads ignores the
\* white space around the text.  An exception of CozeWorkflowEvent(...)
\* leaves the loop for the outer handler, which logs and ends the generator.
StreamStep(line) ==
    IF Strip(line) = <<>> THEN StreamSkip
    ELSE IF StartsWith(line, DATA_PREFIX)
    THEN LET data_str == Drop(line, Len(DATA_PREFIX))
         IN  IF Strip(data_str) = DONE_MARK THEN [yield |-> None, stop |-> TRUE]
             ELSE LET parsed == JsonLoads(Strip(data_str))
                  IN  IF ~parsed.ok THEN StreamSkip
                      ELSE IF StreamEventValid(parsed.value)
                      THEN [yield |-> StreamEvent(parsed.value), stop |-> FALSE]
                      ELSE [yield |-> None, stop |-> TRUE]
    ELSE StreamSkip

ChatStreamLines ==
    {<<" ">>,
     EVENT_PREFIX \o EV_DONE,
     DATA_PREFIX \o DONE_MARK,
     DATA_PREFIX \o J_bad,
     DATA_PREFIX \o S_msg,
     DATA_PREFIX \o S_done,
     DATA_PREFIX \o S_baddata,
     DATA_PREFIX \o J_hel,
     DATA_PREFIX \o J_err,
     <<" ">> \o DATA_PREFIX \o S_done}

ChatStreamBodies == UNION {[1..n -> ChatStreamLines] : n \in 1..MaxLines}

ChatStreamOutcomes ==
    {[kind |-> "timeout"], [kind |-> "error"], HttpResponse(401, J_err2)}
    \cup {[kind |-> "stream", decodable |-> TRUE, lines |-> b] : b \in ChatStreamBodies}

InitStream ==
    /\ pc = "stream_start"
    /\ settings \in SettingsValues
    /\ requests = <<>>
    /\ create_outcome = None
    /\ chat_conversation_id = None
    /\ workflow_outcome = None
    /\ lines = <<>>
    /\ idx = 0
    /\ current_event = None
    /\ events = <<>>
    /\ content_parts = <<>>
    /\ debug_url = None
    /\ conversation_id = None
    /\ result = None
    /\ event = None
    /\ ack = None
    /\ OuterIdle

streamed == <<yielded, lines, idx>>

StreamFrame == <<create_outcome, chat_conversation_id, current_event, events, content_parts,
                 debug_url, conversation_id, result, event, ack, request_body, http_response,
                 statuses, other>>

\* chat_stream up to client.stream(...): the configuration check and the
\* request, which names no conversation.
ChatStream ==
    /\ pc = "stream_start"
    /\ IF settings.access_token = <<>> \/ settings.workflow_id = <<>> \/ settings.app_id = <<>>
       THEN pc' = "stream_ended" /\ UNCHANGED requests
       ELSE pc' = "stream_sending" /\ requests' = Append(requests, WorkflowRequest(None))
    /\ UNCHANGED <<settings, workflow_outcome>>
    /\ UNCHANGED streamed
    /\ UNCHANGED StreamFrame

\* The POST is answered or fails.
StreamResponds ==
    /\ pc = "stream_sending"
    /\ \E outcome \in ChatStreamOutcomes :
         /\ workflow_outcome' = outcome
         /\ IF outcome.kind = "stream"
            THEN pc' = "streaming" /\ lines' = outcome.lines /\ idx' = 1
            ELSE pc' = "stream_ended" /\ UNCHANGED <<lines, idx>>
    /\ UNCHANGED <<settings, requests, yielded>>
    /\ UNCHANGED StreamFrame

\* One line of the response.
StreamLine ==
    /\ pc = "streaming"
    /\ LET step == StreamStep(lines[idx])
       IN  /\ yielded' = IF step.yield # None THEN Append(yielded, step.yield) ELSE yielded
           /\ IF step.stop \/ idx = Len(lines)
              THEN pc' = "stream_ended" /\ UNCHANGED idx
              ELSE pc' = "streaming" /\ idx' = idx + 1
    /\ UNCHANGED <<settings, requests, workflow_outcome, lines>>
    /\ UNCHANGED StreamFrame

\* The connection fails while the lines are read: aiter_lines raises, the
\* outer handler logs and the generator ends.
StreamBreaks ==
    /\ pc = "streaming"
    /\ pc' = "stream_ended"
    /\ workflow_outcome' = [kind |-> "broken"]
    /\ UNCHANGED <<settings, requests>>
    /\ UNCHANGED streamed
    /\ UNCHANGED StreamFrame

NextStream ==
    \/ ChatStream
    \/ StreamResponds
    \/ StreamLine
    \/ StreamBreaks

SpecStream == InitStream /\ [][NextStream]_vars

\* Either mode is entered.
InitModes ==
    /\ pc \in {"start", "stream_start"}
    /\ settings \in SettingsValues
    /\ requests = <<>>
    /\ create_outcome = None
    /\ chat_conversation_id = None
    /\ workflow_outcome = None
    /\ lines = <<>>
    /\ idx = 0
    /\ current_event = None
    /\ events = <<>>
    /\ content_parts = <<>>
    /\ debug_url = None
    /\ conversation_id = None
    /\ result = None
    /\ event = None
    /\ ack = None
    /\ OuterIdle

NextModes == Next \/ NextStream

SpecModes == InitModes /\ [][NextModes]_vars

(***************************************************************************)
(* feishu_webhook: the endpoint around handle_feishu_event, serving one    *)
(* request after the other.  pc is "idle" between two requests and         *)
(* "responded" once the response of the current one is built.              *)
(***************************************************************************)
\* "事件处理成功"
MSG_EVENT_PROCESSED ==
    <<"e","v","e","n","t"," ","p","r","o","c","e","s","s","e","d"," ","s","u","c","c","e","s",
      "s","f","u","l","l","y">>

\* "处理 Webhook 时出错: "
MSG_WEBHOOK_ERROR ==
    <<"e","r","r","o","r"," ","h","a","n","d","l","i","n","g"," ","w","e","b","h","o","o","k",
      ":"," ">>

\* "服务器内部错误"
MSG_SERVER_ERROR ==
    <<"i","n","t","e","r","n","a","l"," ","s","e","r","v","e","r"," ","e","r","r","o","r">>

URL_VERIFICATION ==
    <<"u","r","l","_","v","e","r","i","f","i","c","a","t","i","o","n">>

\* A request whose body request.json() cannot decode.
Undecodable == [t |-> "undecodable"]

JSONResponse(status_code, content) == [status_code |-> status_code, content |-> content]

\* The three except clauses around request.json(); the decoder's error is
\* the first.
InvalidJson ==
    JSONResponse(400, [success |-> FALSE, message |-> "invalid JSON", error |-> "invalid_json"])

\* "challenge" in body and body.get("type") == "url_verification"
IsChallenge(body) ==
    /\ PyIn("challenge", <<"c","h","a","l","l","e","n","g","e">>, body)
    /\ body.t = "dict"
    /\ PyGet(body, "type", None) = PyStr(URL_VERIFICATION)

\* That test raises: `in` on a body that is no container, .get on one that is no dict.
ChallengeTestRaises(body) ==
    \/ ~SupportsIn(body)
    \/ /\ body.t # "dict"
       /\ PyIn("challenge", <<"c","h","a","l","l","e","n","g","e">>, body)

\* WebhookChallenge(**body) validates.
WebhookChallengeValid(body) ==
    /\ body.d["challenge"].t = "str"
    /\ OptionalStr(PyGet(body, "token", None))
    /\ body.d["type"].t = "str"

\* FeishuWebhookEvent(**body) validates.
FeishuWebhookEventValid(body) ==
    /\ body.t = "dict"
    /\ OptionalStr(PyGet(body, "schema", None))
    /\ PyGet(body, "header", PyDict(<<>>)).t = "dict"
    /\ PyGet(body, "event", PyDict(<<>>)).t = "dict"

\* event.model_dump()
ModelDump(body) ==
    PyDict([schema_ |-> PyGet(body, "schema", None),
            header |-> PyGet(body, "header", PyDict(<<>>)),
            event |-> PyGet(body, "event", PyDict(<<>>))])

\* Mutant: the except clause acknowledges the event.
InternalServerError_Acknowledges(exc) ==
    JSONResponse(200, [success |-> TRUE, message |-> PyStr(MSG_EVENT_PROCESSED),
                       challenge |-> None])

\* The except clause of feishu_webhook.
InternalServerError(exc) ==
    JSONResponse(500, [success |-> FALSE, message |-> PyStr(MSG_WEBHOOK_ERROR \o exc),
                       error |-> "internal_server_error"])

\* global_exception_handler, for what leaves feishu_webhook.
GlobalExceptionResponse(exc, debug) ==
    JSONResponse(500, [success |-> FALSE,
                       error |-> IF debug THEN PyStr(exc) ELSE PyStr(MSG_SERVER_ERROR),
                       path |-> "/feishu"])

\* Mutant: a result without message is answered with its error string.
WebhookResponse_CarriesError(res) ==
    JSONResponse(200, [success |-> res.success,
                       message |-> IF "message" \in DOMAIN res THEN res.message
                                   ELSE IF "error" \in DOMAIN res THEN res.error
                                   ELSE PyStr(MSG_EVENT_PROCESSED),
                       challenge |-> None])

\* WebhookResponse(success=..., message=...).model_dump()
WebhookResponse(res) ==
    JSONResponse(200, [success |-> res.success,
                       message |-> IF "message" \in DOMAIN res THEN res.message
                                   ELSE PyStr(MSG_EVENT_PROCESSED),
                       challenge |-> None])

RequestBodies ==
    {Undecodable, PyInt(5), PyStr(<<"h","i">>),
     PyDict([challenge |-> PyStr(<<"a","b","c">>), type |-> PyStr(URL_VERIFICATION)]),
     PyDict([challenge |-> PyInt(5), type |-> PyStr(URL_VERIFICATION)]),
     PyDict([challenge |-> PyStr(<<"a","b","c">>)]),
     PyDict([header |-> PyInt(5)]),
     PyDict([schema |-> PyInt(2)])}
        \cup {PyDict([schema |-> PyStr(<<"2",".","0">>), header |-> h, event |-> e]) :
                h \in Headers, e \in EventPayloads}

\* Nothing of an exchange is under way.
ExchangeIdle ==
    /\ requests = <<>>
    /\ create_outcome = None
    /\ chat_conversation_id = None
    /\ workflow_outcome = None
    /\ lines = <<>>
    /\ idx = 0
    /\ current_event = None
    /\ events = <<>>
    /\ content_parts = <<>>
    /\ debug_url = None
    /\ conversation_id = None
    /\ result = None

InitEndpoint ==
    /\ pc = "idle"
    /\ settings \in SettingsValues
    /\ event = None
    /\ ack = None
    /\ ExchangeIdle
    /\ OuterIdle

\* feishu_webhook from the request to its first return or to the call of
\* handle_feishu_event.
FeishuWebhook ==
    /\ pc = "idle"
    /\ \E body \in RequestBodies :
         /\ request_body' = body
         /\ IF body = Undecodable
            THEN /\ http_response' = InvalidJson
                 /\ pc' = "responded" /\ UNCHANGED event
            ELSE IF ChallengeTestRaises(body)
            THEN /\ \E debug \in BOOLEAN :
                      http_response' = GlobalExceptionResponse(EXC_TYPE_ERROR, debug)
                 /\ pc' = "responded" /\ UNCHANGED event
            ELSE IF IsChallenge(body)
            THEN /\ IF WebhookChallengeValid(body)
                    THEN http_response' = JSONResponse(200, [challenge |-> body.d["challenge"]])
                    ELSE \E debug \in BOOLEAN :
                           http_response' = GlobalExceptionResponse(EXC_VALIDATION_ERROR, debug)
                 /\ pc' = "responded" /\ UNCHANGED event
            ELSE IF ~FeishuWebhookEventValid(body)
            THEN /\ http_response' =
                      InternalServerError(IF body.t = "dict" THEN EXC_VALIDATION_ERROR
                                          ELSE EXC_TYPE_ERROR)
                 /\ pc' = "responded" /\ UNCHANGED event
            ELSE /\ event' = ModelDump(body)
                 /\ pc' = "received" /\ UNCHANGED http_response
    /\ UNCHANGED <<ack, yielded, statuses, other>>
    /\ UNCHANGED exchange
    /\ UNCHANGED parser

\* handle_feishu_event returned or raised: the rest of feishu_webhook.
FeishuWebhookReturns ==
    /\ pc \in {"acked", "handler_raised"}
    /\ http_response' = IF pc = "acked" THEN WebhookResponse(ack)
                        ELSE InternalServerError(EXC_TYPE_ERROR)
    /\ pc' = "responded"
    /\ UNCHANGED <<yielded, request_body, statuses, other>>
    /\ UNCHANGED relay
    /\ UNCHANGED exchange
    /\ UNCHANGED parser

\* The response is sent; the server waits for the next request.
ServeNext ==
    /\ pc = "responded"
    /\ pc' = "idle"
    /\ statuses' = statuses \cup {http_response.status_code}
    /\ request_body' = None
    /\ http_response' = None
    /\ event' = None
    /\ ack' = None
    /\ requests' = <<>>
    /\ create_outcome' = None
    /\ chat_conversation_id' = None
    /\ workflow_outcome' = None
    /\ lines' = <<>>
    /\ idx' = 0
    /\ current_event' = None
    /\ events' = <<>>
    /\ content_parts' = <<>>
    /\ debug_url' = None
    /\ conversation_id' = None
    /\ result' = None
    /\ UNCHANGED <<settings, yielded, other>>

NextEndpoint ==
    \/ FeishuWebhook
    \/ FeishuWebhookReturns
    \/ ServeNext
    \/ NextRelay

SpecEndpoint == InitEndpoint /\ [][NextEndpoint]_vars

(***************************************************************************)
(* Two exchanges on the one CozeService.  The second one is the record     *)
(* `other`; it reads the same settings.  A task is switched only at an     *)
(* await, so the second exchange runs from one POST to the next, its       *)
(* _parse_stream_response included, in one step.                           *)
(***************************************************************************)
\* Mutant: the second parser works on the locals of the first.
OtherLocals_OfFirstExchange == Locals

\* The locals the second exchange's _parse_stream_response starts with.
OtherLocals == InitialLocals

OtherCreateOutcomes ==
    {HttpResponse(200, B_id), HttpResponse(200, B_noid), HttpResponse(500, B_html),
     [kind |-> "timeout"]}

OtherAt(position, created, answered, r) ==
    [pc |-> position, create_outcome |-> created, workflow_outcome |-> answered, result |-> r]

InitPair ==
    /\ pc = "start"
    /\ settings \in SettingsValues
    /\ event = None
    /\ ack = None
    /\ ExchangeIdle
    /\ yielded = <<>>
    /\ request_body = None
    /\ http_response = None
    /\ statuses = {}
    /\ other = OtherAt("start", None, None, None)

first == <<pc, settings, requests, create_outcome, chat_conversation_id, workflow_outcome,
           lines, idx, current_event, events, content_parts, debug_url, conversation_id,
           result, event, ack, yielded, request_body, http_response, statuses>>

\* chat_with_workflow of the second exchange, up to its create POST.
OtherChatWithWorkflow ==
    /\ other # None
    /\ other.pc = "start"
    /\ other' = IF settings.access_token = <<>>
                THEN OtherAt("done", None, None, Failure(MSG_NO_TOKEN))
                ELSE IF settings.workflow_id = <<>> \/ settings.app_id = <<>>
                THEN OtherAt("done", None, None, Failure(MSG_NO_WORKFLOW))
                ELSE OtherAt("creating", None, None, None)
    /\ UNCHANGED first

\* Its create POST ends.
OtherCreateConversationReturns ==
    /\ other # None
    /\ other.pc = "creating"
    /\ \E outcome \in OtherCreateOutcomes :
         other' = IF ~PyTruthy(CreateConversation(outcome))
                  THEN OtherAt("done", outcome, None, Failure(MSG_CANNOT_CREATE))
                  ELSE OtherAt("sending", outcome, None, None)
    /\ UNCHANGED first

\* Its workflow POST ends, and the body is parsed.
OtherWorkflowReturns ==
    /\ other # None
    /\ other.pc = "sending"
    /\ \E outcome \in PairWorkflowOutcomes :
         other' = OtherAt("done", other.create_outcome, outcome,
                          CASE outcome.kind \in {"timeout", "error"} -> TransportFailure(outcome)
                            [] outcome.kind = "response" ->
                                 HandleErrorResponse(outcome.status_code, outcome.text)
                            [] outcome.kind = "stream" -> ParseFrom(OtherLocals, outcome.lines))
    /\ UNCHANGED first

NextPair ==
    \/ OtherChatWithWorkflow
    \/ OtherCreateConversationReturns
    \/ OtherWorkflowReturns
    \/ Next

SpecPair == InitPair /\ [][NextPair]_vars

(***************************************************************************)
(* Vocabulary of the properties: what a line of the body is                *)
(***************************************************************************)
IsEventLine(raw) == StartsWith(Strip(raw), EVENT_PREFIX)

IsDataLine(raw) == ~IsEventLine(raw) /\ StartsWith(Strip(raw), DATA_PREFIX)

\* The text after "data: ".
DataText(raw) == Drop(Strip(raw), Len(DATA_PREFIX))

IsDoneLine(raw) == IsDataLine(raw) /\ Strip(DataText(raw)) = DONE_MARK

\* A data line, not the terminator, whose text is not JSON.
IsMalformedDataLine(raw) ==
    IsDataLine(raw) /\ ~IsDoneLine(raw) /\ ~JsonLoads(DataText(raw)).ok

\* A data line, not the terminator, whose text parses to a JSON object.
HasObjectPayload(raw) ==
    /\ IsDataLine(raw) /\ ~IsDoneLine(raw)
    /\ JsonLoads(DataText(raw)).ok
    /\ JsonLoads(DataText(raw)).value.t = "dict"

Payload(raw) == JsonLoads(DataText(raw)).value

HasCodeAndMsg(v) == "code" \in DOMAIN v.d /\ "msg" \in DOMAIN v.d

\* A line outside the event:/data: forms that is a JSON object with code and msg.
IsBareJsonError(raw) ==
    /\ ~IsEventLine(raw) /\ ~IsDataLine(raw)
    /\ StartsWith(Strip(raw), <<"{">>) /\ EndsWith(Strip(raw), <<"}">>)
    /\ JsonLoads(Strip(raw)).ok
    /\ HasCodeAndMsg(JsonLoads(Strip(raw)).value)

\* Line k of the body is a data frame with an integer code and a string msg.
ErrorFrameAt(k) ==
    /\ HasObjectPayload(lines[k])
    /\ HasCodeAndMsg(Payload(lines[k]))
    /\ Payload(lines[k]).d["code"].t = "int"
    /\ Payload(lines[k]).d["msg"].t = "str"

\* Its detail, when it has one, is null or a mapping.
DetailIsMapping(v) == "detail" \in DOMAIN v.d => v.d["detail"].t \in {"none", "dict"}

DoneBefore(k) == \E j \in 1..(k - 1) : IsDoneLine(lines[j])

\* An earlier line already ended the parse with an error.
ErrorBefore(k) ==
    \E j \in 1..(k - 1) :
        \/ IsBareJsonError(lines[j])
        \/ ErrorFrameAt(j) /\ DetailIsMapping(Payload(lines[j]))

\* The response is a failure whose message holds the code and the msg of v.
ReportsError(r, v) ==
    /\ r # None
    /\ ~r.success
    /\ r.error_message.t = "str"
    /\ Contains(r.error_message.s, IntToStr(v.d["code"].n))
    /\ Contains(r.error_message.s, v.d["msg"].s)

\* _parse_stream_response ran and chat_with_workflow returned its response.
Parsed == pc = "done" /\ lines # <<>>

(***************************************************************************)
(* C1.  As claimed: every data frame with an integer code and a string msg *)
(* that stands before a "data: [DONE]" line makes the result a failure     *)
(* whose message holds that code and that msg, whatever precedes it.       *)
(***************************************************************************)
C1_AnyErrorFrameIsReported ==
    Parsed =>
        \A k \in 1..Len(lines) :
            ErrorFrameAt(k) /\ ~DoneBefore(k) => ReportsError(result, Payload(lines[k]))

(***************************************************************************)
(* C1, amended.  A data frame with an integer code, a string msg and a     *)
(* detail that is absent, null or a mapping, standing before any           *)
(* "data: [DONE]" line and before any other line that ends the parse with  *)
(* an error, makes the result a failure whose message holds that code and  *)
(* that msg, whatever the current event name and the other lines are.      *)
(***************************************************************************)
C1_FirstErrorFrameIsReported ==
    Parsed =>
        \A k \in 1..Len(lines) :
            /\ ErrorFrameAt(k)
            /\ DetailIsMapping(Payload(lines[k]))
            /\ ~DoneBefore(k)
            /\ ~ErrorBefore(k)
            => ReportsError(result, Payload(lines[k]))

\* An error payload under the event name "conversation.message.completed",
\* after a content frame, was reported.
C1_Witness ==
    /\ Parsed
    /\ Len(lines) = 3
    /\ lines[1] = EVENT_PREFIX \o EV_COMPLETED
    /\ lines[2] = DATA_PREFIX \o J_lo
    /\ ErrorFrameAt(3)
    /\ ReportsError(result, Payload(lines[3]))

(***************************************************************************)
(* C2.  When the parse ends in success, the text of the answer is the      *)
(* concatenation, without separator and in order of arrival, of the parts  *)
(* contributed by the recorded "conversation.message.completed" frames     *)
(* that have a content; it is absent when there is no such part.           *)
(***************************************************************************)
IsContentFrame(e) == e.event = EV_COMPLETED /\ "content" \in DOMAIN e.data.d

\* The parts of the content frames among es, in order.
RECURSIVE FragmentsOf(_)
FragmentsOf(es) ==
    IF es = <<>> THEN <<>>
    ELSE (IF IsContentFrame(Head(es))
          THEN <<ContentPart(Head(es).data.d["content"])>> ELSE <<>>)
             \o FragmentsOf(Tail(es))

\* The strings of fs one after the other.
RECURSIVE Concatenation(_)
Concatenation(fs) ==
    IF fs = <<>> THEN <<>>
    ELSE Concatenation(SubSeq(fs, 1, Len(fs) - 1)) \o fs[Len(fs)].s

\* C2: the text of a successful answer is the concatenation, in order and
\* without separator, of the parts of its content frames; absent without part.
C2_TextIsConcatenationInOrder ==
    Parsed /\ result.success =>
        LET fs == FragmentsOf(events)
        IN  IF fs = <<>>
            THEN result.content = None
            ELSE result.content = PyStr(Concatenation(fs))

\* "Hel" then "lo" arrived and the answer reads "Hello".
C2_Witness ==
    /\ Parsed
    /\ result.success
    /\ Len(FragmentsOf(events)) = 2
    /\ FragmentsOf(events)[1] # FragmentsOf(events)[2]
    /\ result.content = PyStr(<<"H", "e", "l", "l", "o">>)

(***************************************************************************)
(* C3.  Once the create POST has ended without a conversation id (a status *)
(* other than 200, a timeout, another transport error, a 200 body without  *)
(* an id), the exchange has returned the "cannot create conversation"      *)
(* failure and no workflow request has been sent.                          *)
(***************************************************************************)
\* The outcome of the create POST carries no conversation id.
YieldsNoConversationId(outcome) ==
    \/ outcome.kind # "response"
    \/ outcome.status_code # 200
    \/ ~JsonLoads(outcome.text).ok
    \/ LET body == JsonLoads(outcome.text).value
       IN  \/ "data" \notin DOMAIN body.d
           \/ "id" \notin DOMAIN body.d["data"].d
           \/ body.d["data"].d["id"] \in {None, PyStr(<<>>)}

WorkflowRequestsSent == {i \in 1..Len(requests) : requests[i].op = "workflow_chat"}

\* C3: a create call that yields no conversation id ends the exchange with
\* the "cannot create conversation" failure, without a workflow request.
C3_NoConversationNoWorkflowCall ==
    create_outcome # None /\ YieldsNoConversationId(create_outcome) =>
        /\ WorkflowRequestsSent = {}
        /\ pc = "done"
        /\ result = Failure(MSG_CANNOT_CREATE)

\* The create POST answered 500 and the exchange failed without a workflow POST.
C3_Witness ==
    /\ create_outcome # None
    /\ create_outcome.kind = "response"
    /\ create_outcome.status_code = 500
    /\ requests = <<[op |-> "create_conversation"]>>
    /\ result = Failure(MSG_CANNOT_CREATE)

(***************************************************************************)
(* C4.  Every response returned is either a success without error message  *)
(* or a failure without text, also when content parts had been gathered    *)
(* before the error.                                                       *)
(***************************************************************************)
C4_SuccessXorError ==
    result # None =>
        /\ result.success => result.error_message = None
        /\ ~result.success => result.content = None

\* Content had been gathered when an error frame ended the parse.
C4_Witness ==
    /\ Parsed
    /\ content_parts # <<>>
    /\ ~result.success
    /\ result.content = None
    /\ result.error_message # None

(***************************************************************************)
(* C5.  The first "data: [DONE]" line ends the loop: no later line is read, *)
(* no event is recorded for it, and the response is the one of the body cut *)
(* before that line.                                                       *)
(***************************************************************************)
HasDone == \E k \in 1..Len(lines) : IsDoneLine(lines[k])

FirstDone == CHOOSE k \in 1..Len(lines) : IsDoneLine(lines[k]) /\ ~DoneBefore(k)

\* The data lines with an object payload among the first n lines.
FrameLinesUpTo(n) == {j \in 1..n : HasObjectPayload(lines[j])}

\* C5: nothing at or after the first "data: [DONE]" line is read or recorded,
\* and the response is that of the body cut before it.
C5_DoneEndsDecoding ==
    lines # <<>> /\ HasDone =>
        /\ idx <= FirstDone
        /\ Len(events) <= Cardinality(FrameLinesUpTo(FirstDone - 1))
        /\ pc = "done" =>
             result = ParseStreamResponse(SubSeq(lines, 1, FirstDone - 1))

\* A content frame and an error frame after "[DONE]" were not read: the
\* answer is the one of the "done" frame alone.
C5_Witness ==
    /\ Parsed
    /\ Len(lines) = 3
    /\ lines[1] = DATA_PREFIX \o J_empty
    /\ IsDoneLine(lines[2])
    /\ ErrorFrameAt(3)
    /\ result.success

(***************************************************************************)
(* C6.  A data line whose text is not JSON (and is not the terminator) is  *)
(* skipped: the response is the one of the body without that line.         *)
(***************************************************************************)
RemoveAt(ls, k) == SubSeq(ls, 1, k - 1) \o SubSeq(ls, k + 1, Len(ls))

C6_MalformedLineIsSkipped ==
    Parsed =>
        \A k \in 1..Len(lines) :
            IsMalformedDataLine(lines[k]) =>
                result = ParseStreamResponse(RemoveAt(lines, k))

\* The frames on both sides of a malformed line were recorded.
C6_Witness ==
    /\ Parsed
    /\ Len(lines) = 3
    /\ HasObjectPayload(lines[1])
    /\ IsMalformedDataLine(lines[2])
    /\ HasObjectPayload(lines[3])
    /\ Len(events) = 2
    /\ result.success

(***************************************************************************)
(* C7.  As claimed: every data line read whose text parses to a JSON object *)
(* that is no error payload records exactly one event, with that object as  *)
(* data and with the name of the latest "event: " line before it ("unknown" *)
(* without one); and only an "event: " line changes the current event name. *)
(***************************************************************************)
\* The name given by the latest "event: " line among the first n lines.
LastEventName(n) ==
    LET js == {j \in 1..n : IsEventLine(lines[j])}
    IN  IF js = {}
        THEN EV_UNKNOWN
        ELSE Drop(Strip(lines[CHOOSE j \in js : \A i \in js : i <= j]),
                  Len(EVENT_PREFIX))

\* A data line with an object payload that does not hold both code and msg.
IsPlainFrameLine(raw) == HasObjectPayload(raw) /\ ~HasCodeAndMsg(Payload(raw))

RecordsOneFrame ==
    events' = Append(events, [event |-> LastEventName(idx - 1),
                              data |-> Payload(lines[idx])])

OnlyEventLinesRename == current_event' # current_event => IsEventLine(lines[idx])

\* C7, as claimed: each data line with a JSON object that is no error payload
\* records one event under the latest event name; only event lines rename.
C7_EveryObjectLineRecordsOneFrame ==
    [][pc = "parsing" =>
         /\ IsPlainFrameLine(lines[idx]) => RecordsOneFrame
         /\ OnlyEventLinesRename]_vars

(***************************************************************************)
(* C7, amended.  The same, for the data lines read while the current event  *)
(* name is not "error": under the name "error" a payload without code and   *)
(* msg fails CozeErrorResponse validation and records nothing.             *)
(***************************************************************************)
C7_ObjectLineRecordsOneFrameUnlessErrorEvent ==
    [][pc = "parsing" =>
         /\ IsPlainFrameLine(lines[idx]) /\ LastEventName(idx - 1) # EV_ERROR
                => RecordsOneFrame
         /\ OnlyEventLinesRename]_vars

\* Two data lines under one "event: done" line: two events named "done".
C7_Witness ==
    /\ Len(lines) = 3
    /\ lines[1] = EVENT_PREFIX \o EV_DONE \* one event line
    /\ IsPlainFrameLine(lines[2])
    /\ IsPlainFrameLine(lines[3])
    /\ Len(events) = 2
    /\ events[1].event = EV_DONE
    /\ events[2].event = EV_DONE
    /\ events[2].data = Payload(lines[3])

(***************************************************************************)
(* C8.  When the loop ends (end of the body or "[DONE]") with no event      *)
(* recorded, the response is the "no valid response" failure.              *)
(***************************************************************************)
C8_NoFrameIsNoValidResponse ==
    [][pc = "assembling" /\ events = <<>> =>
         result' = CozeAIResponse(FALSE, None, None, None,
                                  PyStr(MSG_NO_VALID_RESPONSE))]_vars

\* A body of an event line, a malformed data line and a blank line.
C8_Witness ==
    /\ Parsed
    /\ Len(lines) = 3
    /\ IsEventLine(lines[1])
    /\ IsMalformedDataLine(lines[2])
    /\ Strip(lines[3]) = <<>>
    /\ events = <<>>
    /\ ~result.success
    /\ result.error_message = PyStr(MSG_NO_VALID_RESPONSE)

(***************************************************************************)
(* C9.  As claimed: when the loop ends with an event recorded and no        *)
(* content part, the response is a success without text whose debug_url and *)
(* conversation_id are those of the "done" event.                          *)
(***************************************************************************)
\* The value of `key` in the last "done" event that has it, None without one.
LastDoneValue(key) ==
    LET js == {j \in 1..Len(events) :
                 events[j].event = EV_DONE /\ key \in DOMAIN events[j].data.d}
    IN  IF js = {}
        THEN None
        ELSE events[CHOOSE j \in js : \A i \in js : i <= j].data.d[key]

EmptyAnswer ==
    result' = CozeAIResponse(TRUE, None, LastDoneValue("debug_url"),
                             LastDoneValue("conversation_id"), None)

\* C9, as claimed: events but no content part give a success without text that
\* carries the debug_url and conversation_id of the "done" event.
C9_FramesWithoutContentSucceed ==
    [][pc = "assembling" /\ events # <<>> /\ content_parts = <<>> => EmptyAnswer]_vars

(***************************************************************************)
(* C9, amended.  The same, provided the debug_url and the conversation_id   *)
(* of the "done" events are strings or null; any other JSON value there     *)
(* fails CozeAIResponse validation and the response is a failure.          *)
(***************************************************************************)
C9_FramesWithoutContentSucceedOnStringMetadata ==
    [][pc = "assembling" /\ events # <<>> /\ content_parts = <<>> =>
         IF OptionalStr(LastDoneValue("debug_url"))
               /\ OptionalStr(LastDoneValue("conversation_id"))
         THEN EmptyAnswer
         ELSE ~result'.success /\ result'.content = None]_vars

\* Only a "done" frame with debug_url "http://x" and conversation_id "c1".
C9_Witness ==
    /\ Parsed
    /\ Len(events) = 1
    /\ events[1].event = EV_DONE
    /\ content_parts = <<>>
    /\ result = CozeAIResponse(TRUE, None, PyStr(<<"h", "t", "t", "p", ":", "/", "/", "x">>),
                               PyStr(<<"c", "1">>), None)

MissingSetting ==
    \/ settings.access_token = <<>>
    \/ settings.workflow_id = <<>>
    \/ settings.app_id = <<>>

\* The message that names what is missing.
MissingSettingMessage ==
    IF settings.access_token = <<>> THEN MSG_NO_TOKEN ELSE MSG_NO_WORKFLOW

\* Positions of chat_with_workflow past its precondition checks.
PastPreconditions == {"creating", "sending", "parsing", "assembling", "raised"}

CountOf(op) == Cardinality({i \in 1..Len(requests) : requests[i].op = op})

(***************************************************************************)
(* C11.  With an empty access token, workflow id or app id,                *)
(* chat_with_workflow issues no request at all (neither the create request *)
(* nor the workflow request) and what it returns is the failure whose      *)
(* message names the missing setting.                                      *)
(***************************************************************************)
C11_MissingSettingFailsBeforeAnyRequest ==
    MissingSetting =>
        /\ requests = <<>>
        /\ pc \notin PastPreconditions
        /\ result # None =>
             result = CozeAIResponse(FALSE, None, None, None,
                                     PyStr(MissingSettingMessage))

\* Token and workflow id are set, the app id is empty: refused, nothing sent.
C11_Witness ==
    /\ pc = "done"
    /\ settings.access_token # <<>>
    /\ settings.workflow_id # <<>>
    /\ settings.app_id = <<>>
    /\ requests = <<>>
    /\ result = CozeAIResponse(FALSE, None, None, None, PyStr(MSG_NO_WORKFLOW))

(***************************************************************************)
(* C12.  Nothing is retried: every step of an exchange leaves at most one  *)
(* create request and at most one workflow request issued, and once a      *)
(* result exists (the first failure, or the success) no step changes it or *)
(* issues another request.                                                 *)
(***************************************************************************)
C12_NoRetry ==
    [][/\ CountOf("create_conversation")' <= 1
       /\ CountOf("workflow_chat")' <= 1
       /\ result # None => result' = result /\ requests' = requests]_vars

\* An in-stream error after one create request and one workflow request.
C12_Witness ==
    /\ Parsed
    /\ ~result.success
    /\ CountOf("create_conversation") = 1
    /\ CountOf("workflow_chat") = 1
    /\ Len(requests) = 2

(***************************************************************************)
(* C13.  As claimed: chat_with_workflow never raises, whatever the create  *)
(* call and the workflow call answer, and it has ended exactly when it has *)
(* returned its one answer.                                                *)
(***************************************************************************)
C13_AlwaysReturnsNeverRaises ==
    /\ pc # "raised"
    /\ pc = "done" <=> result # None

(***************************************************************************)
(* Vocabulary of the properties: the body of an error response             *)
(***************************************************************************)
\* The text is a JSON object with an integer code, a string msg and, if it
\* has a detail, a detail that is an object or null.
ParsesAsErrorPayload(text) ==
    LET body == JsonLoads(text)
    IN  /\ body.ok
        /\ body.value.t = "dict"
        /\ HasCodeAndMsg(body.value)
        /\ body.value.d["code"].t = "int"
        /\ body.value.d["msg"].t = "str"
        /\ DetailIsMapping(body.value)

ErrorPayloadMessage(text) ==
    LET body == JsonLoads(text).value.d
    IN  MSG_API_ERROR \o IntToStr(body["code"].n) \o MSG_SEP \o body["msg"].s

RawStatusMessage(status_code, text) ==
    MSG_HTTP \o IntToStr(status_code) \o MSG_SEP \o text

WorkflowEndedWith(kind) ==
    workflow_outcome # None /\ workflow_outcome.kind = kind

(***************************************************************************)
(* C17.  When the workflow call answers with a status other than 200, no   *)
(* line of the body is ever given to the stream parser and the result is a *)
(* failure whose message is built from the body's code and msg when the    *)
(* body parses as an error payload, and is the status code followed by the *)
(* body text otherwise.                                                    *)
(***************************************************************************)
C17_ErrorStatusSkipsParser ==
    WorkflowEndedWith("response") /\ workflow_outcome.status_code # 200 =>
        /\ pc = "done"
        /\ lines = <<>> /\ idx = 0 /\ events = <<>> /\ content_parts = <<>>
        /\ result =
             CozeAIResponse(FALSE, None, None, None,
                 PyStr(IF ParsesAsErrorPayload(workflow_outcome.text)
                       THEN ErrorPayloadMessage(workflow_outcome.text)
                       ELSE RawStatusMessage(workflow_outcome.status_code,
                                             workflow_outcome.text)))

\* 401 with {"code":7,"msg":"no"}: the failure says "API error 7: no".
C17_Witness ==
    /\ WorkflowEndedWith("response")
    /\ workflow_outcome.status_code = 401
    /\ workflow_outcome.text = J_err2
    /\ result # None
    /\ result.error_message =
         PyStr(MSG_API_ERROR \o <<"7">> \o MSG_SEP \o <<"n", "o">>)

(***************************************************************************)
(* C18.  A timeout of the workflow request makes chat_with_workflow return *)
(* the failure with the timeout message and no text, without any line      *)
(* being parsed; no other outcome of the workflow request, any other       *)
(* transport failure included, produces that message.                      *)
(***************************************************************************)
C18_TimeoutHasItsOwnMessage ==
    workflow_outcome # None =>
        /\ workflow_outcome.kind = "timeout" =>
             /\ pc = "done"
             /\ lines = <<>> /\ content_parts = <<>>
             /\ result = CozeAIResponse(FALSE, None, None, None, PyStr(MSG_TIMEOUT))
        /\ workflow_outcome.kind # "timeout" /\ result # None =>
             result.error_message # PyStr(MSG_TIMEOUT)

\* The workflow POST timed out after the conversation was created.
C18_Witness ==
    /\ WorkflowEndedWith("timeout")
    /\ Len(requests) = 2
    /\ result # None
    /\ ~result.success
    /\ result.content = None
    /\ result.error_message = PyStr(MSG_TIMEOUT)

(***************************************************************************)
(* Vocabulary of the properties: data lines read under the name "error"    *)
(***************************************************************************)
\* The loop is at a data line with a JSON object, read under "event: error".
AtFrameUnderErrorEvent ==
    /\ pc = "parsing"
    /\ HasObjectPayload(lines[idx])
    /\ LastEventName(idx - 1) = EV_ERROR

ParserLocalsUnchanged ==
    UNCHANGED <<current_event, events, content_parts, debug_url, conversation_id>>

\* Processing the payload of line k raises something other than a JSON
\* parse failure: the line is taken for an error and is no error payload.
RaisesAt(k) ==
    /\ HasObjectPayload(lines[k])
    /\ LastEventName(k - 1) = EV_ERROR \/ HasCodeAndMsg(Payload(lines[k]))
    /\ ~ParsesAsErrorPayload(DataText(lines[k]))

\* Line k is read: no earlier line ended the loop.
IsRead(k) == ~DoneBefore(k) /\ ~ErrorBefore(k)

C20_FrameExceptionAbortsAssembly ==
    Parsed =>
        \A k \in 1..Len(lines) :
            RaisesAt(k) /\ IsRead(k) =>
                /\ ~result.success
                /\ StartsWith(result.error_message.s, MSG_PARSE_FAILED)

(***************************************************************************)
(* C20, amended.  When processing the payload of a data line raises        *)
(* something other than a JSON parse failure, the line is skipped like a   *)
(* malformed one: the response is the one of the body without that line,   *)
(* so that later frames can still make it a success.                       *)
(***************************************************************************)
C20_FrameExceptionSkipsTheLine ==
    Parsed =>
        \A k \in 1..Len(lines) :
            RaisesAt(k) => result = ParseStreamResponse(RemoveAt(lines, k))

\* A payload with code, msg and a string detail fails validation; the frame
\* after it is recorded and the answer is a success with its text.
C20_Witness ==
    /\ Parsed
    /\ Len(lines) = 3
    /\ RaisesAt(1)
    /\ lines[2] = EVENT_PREFIX \o EV_COMPLETED
    /\ HasObjectPayload(lines[3])
    /\ Len(events) = 1
    /\ result.success
    /\ result.content # None

(***************************************************************************)
(* Vocabulary of the properties: the event handed to handle_feishu_event   *)
(***************************************************************************)
HeaderOf == event.d["header"].d

\* The value of a header field, "unknown" when the header has none.
Declared(key) == IF key \in DOMAIN HeaderOf THEN HeaderOf[key] ELSE PyStr(UNKNOWN)

IsMessageReceive ==
    /\ "event_type" \in DOMAIN HeaderOf
    /\ HeaderOf["event_type"] = PyStr(EVT_MESSAGE_RECEIVE)

\* The event has a message with a string content.
HasStringContent ==
    LET body == event.d["event"].d
    IN  /\ "message" \in DOMAIN body
        /\ body["message"].t = "dict"
        /\ "content" \in DOMAIN body["message"].d
        /\ body["message"].d["content"].t = "str"

ContentOf == event.d["event"].d["message"].d["content"].s

\* The text of the event: the `text` of a content that is a JSON object,
\* the content itself when it is no JSON; nothing otherwise.
HasText ==
    /\ HasStringContent
    /\ LET decoded == JsonLoads(ContentOf)
       IN  IF decoded.ok
           THEN /\ decoded.value.t = "dict"
                /\ "text" \in DOMAIN decoded.value.d
                /\ PyTruthy(decoded.value.d["text"])
           ELSE ContentOf # <<>>

TextOf ==
    IF JsonLoads(ContentOf).ok
    THEN JsonLoads(ContentOf).value.d["text"]
    ELSE PyStr(ContentOf)

\* chat_with_workflow was never entered: it has issued no request and has
\* returned nothing.
SessionClientNeverCalled ==
    /\ pc \in {"received", "acked", "handler_raised"}
    /\ requests = <<>>
    /\ result = None
    /\ create_outcome = None /\ workflow_outcome = None

Handled == event # None /\ pc # "received"

SettingsComplete ==
    settings.access_token # <<>> /\ settings.workflow_id # <<>> /\ settings.app_id # <<>>

(***************************************************************************)
(* C14.  For a message-receive event whose text extraction yields nothing  *)
(* or an empty value (no message, no content, a content that is no string, *)
(* an empty content, a content that decodes to something other than an     *)
(* object, an object without `text` or with an empty `text`),              *)
(* handle_feishu_event returns the failure "unable to extract message      *)
(* content" and chat_with_workflow is never called.                        *)
(***************************************************************************)
C14_NoTextIsRefusedWithoutSessionClient ==
    Handled /\ IsMessageReceive /\ ~HasText =>
        /\ pc = "acked"
        /\ ack = [success |-> FALSE,
                  event_type |-> PyStr(EVT_MESSAGE_RECEIVE),
                  event_id |-> Declared("event_id"),
                  error |-> PyStr(MSG_CANNOT_EXTRACT)]
        /\ SessionClientNeverCalled

\* A content {"text":""} with complete settings: refused, nothing sent.
C14_Witness ==
    /\ Handled
    /\ IsMessageReceive
    /\ HasStringContent
    /\ ContentOf = M_blank
    /\ SettingsComplete
    /\ pc = "acked"
    /\ ~ack.success
    /\ ack.error = PyStr(MSG_CANNOT_EXTRACT)
    /\ requests = <<>>

(***************************************************************************)
(* C15.  For every event whose event_type is not the message-receive one   *)
(* (an absent event_type counts as "unknown"), handle_feishu_event returns *)
(* success with a message that names the event type, and                   *)
(* chat_with_workflow is never called, so no request is issued.            *)
(***************************************************************************)
C15_OtherEventsAreAcknowledgedOnly ==
    Handled /\ ~IsMessageReceive =>
        /\ pc = "acked"
        /\ ack = [success |-> TRUE,
                  event_type |-> Declared("event_type"),
                  event_id |-> Declared("event_id"),
                  message |-> PyStr(MSG_EVENT_TYPE
                                      \o PyStrOf(Declared("event_type"))
                                      \o MSG_NOT_PROCESSED)]
        /\ SessionClientNeverCalled

\* An event without event_type that holds a text, with complete settings.
C15_Witness ==
    /\ Handled
    /\ HeaderOf = <<>>
    /\ HasText
    /\ SettingsComplete
    /\ pc = "acked"
    /\ ack.success
    /\ ack.event_type = PyStr(UNKNOWN)
    /\ ack.message = PyStr(MSG_EVENT_TYPE \o UNKNOWN \o MSG_NOT_PROCESSED)
    /\ requests = <<>>

(***************************************************************************)
(* C16.  For a message-receive event whose text is a non-empty string,     *)
(* handle_feishu_event returns an acknowledgement; it carries event_type   *)
(* and event_id, its success is the success of the answer of               *)
(* chat_with_workflow, it carries ai_response (the content and the         *)
(* conversation_id of the answer) exactly when success is true and an      *)
(* error string exactly when success is false.                             *)
(***************************************************************************)
C16_AcknowledgementMirrorsAnswer ==
    Handled /\ IsMessageReceive /\ HasText /\ TextOf.t = "str" =>
        /\ pc # "handler_raised"
        /\ pc = "acked" =>
             /\ ack.event_type = PyStr(EVT_MESSAGE_RECEIVE)
             /\ ack.event_id = Declared("event_id")
             /\ ack.success = (result # None /\ result.success)
             /\ ack.success <=> "ai_response" \in DOMAIN ack
             /\ ack.success =>
                  ack.ai_response = [content |-> result.content,
                                     conversation_id |-> result.conversation_id]
             /\ ~ack.success <=> "error" \in DOMAIN ack
             /\ ~ack.success => ack.error.t = "str" /\ ack.error.s # <<>>

\* The text "hi" was answered "Hel": the acknowledgement carries the answer.
C16_Witness ==
    /\ Handled
    /\ IsMessageReceive
    /\ HasText
    /\ TextOf = PyStr(<<"h", "i">>)
    /\ pc = "acked"
    /\ ack.success
    /\ ack.event_id = PyStr(UNKNOWN)
    /\ ack.ai_response.content = PyStr(<<"H", "e", "l">>)
    /\ "error" \notin DOMAIN ack

(***************************************************************************)
(* Vocabulary of the properties: lines outside the event:/data: forms      *)
(***************************************************************************)
\* A line that is neither an event line nor a data line and looks like a
\* JSON object.
IsBareJsonLine(raw) ==
    /\ ~IsEventLine(raw) /\ ~IsDataLine(raw)
    /\ StartsWith(Strip(raw), <<"{">>) /\ EndsWith(Strip(raw), <<"}">>)

(***************************************************************************)
(* C21.  A line outside the event:/data: forms that starts with "{", ends  *)
(* with "}", parses as JSON and holds both code and msg ends the parse at  *)
(* once with a failure, and no later line is read; such a line that does   *)
(* not parse, or lacks code or msg, records nothing, leaves every local as *)
(* it was and produces no result.                                          *)
(***************************************************************************)
C21_BareJsonErrorIsTerminal ==
    [][pc = "parsing" /\ IsBareJsonLine(lines[idx]) =>
         IF IsBareJsonError(lines[idx])
         THEN /\ pc' = "done"
              /\ idx' = idx
              /\ ~result'.success
              /\ result'.content = None
              /\ ParsesAsErrorPayload(Strip(lines[idx])) =>
                   result'.error_message =
                       PyStr(ErrorPayloadMessage(Strip(lines[idx])))
         ELSE /\ pc' \in {"parsing", "assembling"}
              /\ result' = None
              /\ ParserLocalsUnchanged]_vars

\* A frame, a bare {} that changes nothing, then a bare error that ends the
\* parse.
C21_Witness ==
    /\ Parsed
    /\ Len(lines) = 3
    /\ HasObjectPayload(lines[1])
    /\ IsBareJsonLine(lines[2]) /\ ~IsBareJsonError(lines[2])
    /\ IsBareJsonError(lines[3])
    /\ Len(events) = 1
    /\ ~result.success

(***************************************************************************)
(* The two modes of an exchange.                                           *)
(***************************************************************************)
StreamPositions == {"stream_start", "stream_sending", "streaming", "stream_ended"}

\* C22: in both modes a workflow request is sent only after the create call
\* of the same exchange has yielded a conversation id, and carries that id.
C22_WorkflowRequestFollowsCreation ==
    \A i \in WorkflowRequestsSent :
        /\ \E j \in 1..(i - 1) : requests[j].op = "create_conversation"
        /\ create_outcome # None
        /\ ~YieldsNoConversationId(create_outcome)
        /\ PyTruthy(requests[i].conversation_id)
        /\ requests[i].conversation_id = chat_conversation_id

\* The frames the buffered parser records on the lines ls.
RECURSIVE FramesFrom(_, _)
FramesFrom(st, ls) ==
    IF ls = <<>> THEN st.events
    ELSE LET st1 == ProcessLine(st, Head(ls))
         IN  IF st1.returned # None \/ st1.stop THEN st1.events
             ELSE FramesFrom(st1, Tail(ls))

RecordedFrames(ls) == FramesFrom(InitialLocals, ls)

\* No line of ls is an in-band error.
NoInBandError(ls) ==
    \A k \in 1..Len(ls) :
        /\ ~IsBareJsonError(ls[k])
        /\ ~(HasObjectPayload(ls[k]) /\ HasCodeAndMsg(Payload(ls[k])))

\* The stream was read to its end or to its terminator.
StreamedThrough ==
    /\ pc = "stream_ended"
    /\ workflow_outcome # None
    /\ workflow_outcome.kind = "stream"

\* C23: on lines without an in-band error, the frames yielded in streaming
\* mode are the frames the buffered parser records on the same lines.
C23_StreamingYieldsTheBufferedFrames ==
    StreamedThrough /\ NoInBandError(lines) => yielded = RecordedFrames(lines)

\* A line chat_stream takes for a data line: the prefix at its very start.
IsStreamDataLine(line) ==
    /\ Strip(line) # <<>>
    /\ StartsWith(line, DATA_PREFIX)
    /\ Strip(Drop(line, Len(DATA_PREFIX))) # DONE_MARK

\* A data line whose text is JSON but builds no CozeWorkflowEvent.
Unbuildable(line) ==
    /\ IsStreamDataLine(line)
    /\ JsonLoads(Strip(Drop(line, Len(DATA_PREFIX)))).ok
    /\ LET v == JsonLoads(Strip(Drop(line, Len(DATA_PREFIX)))).value
       IN  \/ v.t # "dict"
           \/ "event" \notin DOMAIN v.d
           \/ v.d["event"].t # "str"
           \/ "data" \in DOMAIN v.d /\ v.d["data"].t \notin {"none", "dict"}

\* C30: in streaming mode every failure ends the frame sequence silently.
\* With an incomplete configuration no request is sent and nothing is
\* yielded; a POST that fails or answers another status than 200 yields
\* nothing; a data line whose JSON builds no frame ends the generator where
\* it stands, with the frames yielded so far and the later lines unread; no
\* step leaves the generator's positions or produces a failure value, and
\* an ended generator takes no further step.
C30_StreamingFailuresAreSilent ==
    [][/\ pc # "stream_ended"
       /\ pc' \in StreamPositions
       /\ result' = None
       /\ pc = "stream_start" /\ MissingSetting =>
            pc' = "stream_ended" /\ requests' = <<>> /\ yielded' = <<>>
       /\ pc = "stream_sending" /\ workflow_outcome'.kind # "stream" =>
            pc' = "stream_ended" /\ yielded' = <<>>
       /\ pc = "streaming" /\ workflow_outcome'.kind = "broken" =>
            pc' = "stream_ended" /\ yielded' = yielded
       /\ pc = "streaming" /\ workflow_outcome'.kind = "stream" /\ Unbuildable(lines[idx]) =>
            pc' = "stream_ended" /\ yielded' = yielded /\ idx' = idx]_vars

\* A frame was yielded, then an in-band error object ended the stream
\* before its last line, which would have built a frame.
C30_Witness ==
    /\ StreamedThrough
    /\ Len(lines) = 3
    /\ idx = 2
    /\ Len(yielded) = 1
    /\ lines[2] = DATA_PREFIX \o J_err
    /\ lines[3] = DATA_PREFIX \o S_done

(***************************************************************************)
(* Content fragments.                                                      *)
(***************************************************************************)
\* The fragment a `content` value stands for: the `output` of a content that
\* is the text of an object having one, the content itself when it starts
\* with a brace otherwise, and the content as a string in every other case.
FragmentFor(content) ==
    IF content.t = "str" /\ content.s # <<>> /\ Head(content.s) = "{"
    THEN IF JsonLoads(content.s).ok /\ "output" \in DOMAIN JsonLoads(content.s).value.d
         THEN JsonLoads(content.s).value.d["output"]
         ELSE content
    ELSE PyStr(PyStrOf(content))

\* The fragments of the frames read so far: completed frames with a content.
RECURSIVE FragmentsUpTo(_)
FragmentsUpTo(k) ==
    IF k = 0 THEN <<>>
    ELSE FragmentsUpTo(k - 1) \o
         (IF /\ HasObjectPayload(lines[k])
             /\ LastEventName(k) = EV_COMPLETED
             /\ "content" \in DOMAIN Payload(lines[k]).d
          THEN <<FragmentFor(Payload(lines[k]).d["content"])>>
          ELSE <<>>)

\* C24: each completed frame with a content appends the fragment its content
\* stands for, and whatever the type of that fragment the answer succeeds.
C24_EveryFragmentReachesASuccessfulAnswer ==
    Parsed /\ NoInBandError(lines) =>
        /\ content_parts = FragmentsUpTo(Len(lines))
        /\ content_parts # <<>> => result.success

(***************************************************************************)
(* Frames of other names, blank lines, the end of the input, and what the  *)
(* parser's lists keep true.                                               *)
(***************************************************************************)
NamedEvents == {EV_COMPLETED, EV_DONE, EV_ERROR}

\* Line k is a frame of another name than the three the parser acts on.
IsOtherFrameAt(k) ==
    /\ IsPlainFrameLine(lines[k])
    /\ LastEventName(k - 1) \notin NamedEvents

\* The body holds such frames and the event lines that name them, only.
OnlyOtherFrames ==
    /\ \E k \in 1..Len(lines) : IsOtherFrameAt(k)
    /\ \A k \in 1..Len(lines) : IsOtherFrameAt(k) \/ IsEventLine(lines[k])

\* C25: a frame named neither completed, done nor error, whose payload is no
\* error payload, is recorded and leaves the fragments, the debug link and
\* the conversation id unchanged; a body of such frames only yields success
\* with no text.
C25_OtherFramesAreRecordedOnly ==
    [][/\ pc = "parsing" /\ IsOtherFrameAt(idx) =>
            /\ events' = Append(events, [event |-> LastEventName(idx - 1),
                                          data |-> Payload(lines[idx])])
            /\ UNCHANGED <<content_parts, debug_url, conversation_id>>
       /\ pc' = "done" /\ OnlyOtherFrames =>
            result' = CozeAIResponse(TRUE, None, None, None, None)]_vars

\* Under "ping", a frame with a content and a frame with a debug_url and a
\* conversation_id: both recorded, the answer empty.
C25_Witness ==
    /\ Parsed
    /\ lines = <<EVENT_PREFIX \o <<"p", "i", "n", "g">>, DATA_PREFIX \o J_hel,
                 DATA_PREFIX \o J_meta>>
    /\ Len(events) = 2
    /\ result = CozeAIResponse(TRUE, None, None, None, None)

IsBlank(raw) == Strip(raw) = <<>>

\* C26: a blank line changes nothing, wherever it stands, and a body without
\* terminator yields what it yields with "data: [DONE]" appended.
C26_BlankLinesAndMissingTerminatorAreNeutral ==
    Parsed =>
        /\ \A k \in 1..Len(lines) :
              IsBlank(lines[k]) => result = ParseStreamResponse(RemoveAt(lines, k))
        /\ ~HasDone =>
              result = ParseStreamResponse(Append(lines, DATA_PREFIX \o DONE_MARK))

\* Two fragments around a blank line, no terminator: the answer has both.
C26_Witness ==
    /\ Parsed
    /\ Len(lines) = 3
    /\ lines[1] = DATA_PREFIX \o J_hel
    /\ IsBlank(lines[2])
    /\ lines[3] = DATA_PREFIX \o J_meta
    /\ ~HasDone
    /\ Len(events) = 2
    /\ result.success

IsPrefixOf(s, t) == Len(s) <= Len(t) /\ SubSeq(t, 1, Len(s)) = s

\* C29: while the parser runs, events and content_parts only grow and there
\* are at most as many fragments as frames; an answer with a text has a
\* frame behind it, and once a frame is recorded the result is never the
\* "no valid response" failure.
C29_ListsOnlyGrow ==
    [][/\ IsPrefixOf(events, events')
       /\ IsPrefixOf(content_parts, content_parts')
       /\ Len(content_parts) <= Len(events)
       /\ Len(content_parts') <= Len(events')
       /\ result' # None /\ result'.content # None => events' # <<>>
       /\ result' # None /\ events # <<>> =>
            result'.error_message # PyStr(MSG_NO_VALID_RESPONSE)]_vars

\* A completed frame gave the text, a later frame added none.
C29_Witness ==
    /\ Parsed
    /\ Len(events) = 2
    /\ Len(content_parts) = 1
    /\ result.success
    /\ result.content = PyStr(<<"H", "e", "l">>)

(***************************************************************************)
(* The endpoint's boundary.                                                *)
(***************************************************************************)
IsInternalError(r) == r.status_code = 500 /\ r.content.success = FALSE

\* The request carries JSON that is no url-verification challenge.
CarriesEvent(body) ==
    /\ body # Undecodable
    /\ body.t = "dict" =>
         ~("challenge" \in DOMAIN body.d /\ "type" \in DOMAIN body.d
            /\ body.d["type"] = PyStr(URL_VERIFICATION))

\* The body passes as a FeishuWebhookEvent: `schema` a string or null,
\* `header` and `event` mappings, each possibly absent.
IsEventBody(body) ==
    /\ body.t = "dict"
    /\ "schema" \in DOMAIN body.d => body.d["schema"].t \in {"str", "none"}
    /\ "header" \in DOMAIN body.d => body.d["header"].t = "dict"
    /\ "event" \in DOMAIN body.d => body.d["event"].t = "dict"

\* C28: a fault raised while an event is validated or handled ends the
\* request with HTTP 500 and success=false, the endpoint's own except clause
\* adding error "internal_server_error"; every request ends with a
\* response, and after any response the next request is served.
C28_FaultsBecomeInternalErrors ==
    [][/\ pc = "idle" /\ CarriesEvent(request_body') /\ ~IsEventBody(request_body') =>
            pc' = "responded" /\ IsInternalError(http_response')
       /\ pc = "idle" /\ IsEventBody(request_body') /\ CarriesEvent(request_body') =>
            pc' = "received"
       /\ pc = "handler_raised" =>
            /\ pc' = "responded" /\ IsInternalError(http_response')
            /\ http_response'.content.error = "internal_server_error"
       /\ pc = "responded" =>
            /\ http_response # None
            /\ pc' = "idle"
            /\ statuses' = statuses \cup {http_response.status_code}]_vars

\* After a request answered 500, a message was relayed and answered 200.
C28_Witness ==
    /\ 500 \in statuses
    /\ pc = "responded"
    /\ ack # None
    /\ "ai_response" \in DOMAIN ack
    /\ http_response.status_code = 200
    /\ http_response.content.success

(***************************************************************************)
(* Two exchanges at once.                                                  *)
(***************************************************************************)
\* What chat_with_workflow returns for the given answers of its two POSTs,
\* when no other exchange runs.
ChatAlone(cfg, created, answered) ==
    IF cfg.access_token = <<>> THEN Failure(MSG_NO_TOKEN)
    ELSE IF cfg.workflow_id = <<>> \/ cfg.app_id = <<>> THEN Failure(MSG_NO_WORKFLOW)
    ELSE IF YieldsNoConversationId(created) THEN Failure(MSG_CANNOT_CREATE)
    ELSE CASE answered.kind = "timeout" -> Failure(MSG_TIMEOUT)
           [] answered.kind = "error" -> Failure(MSG_REQUEST_FAILED \o EXC_CONNECT_ERROR)
           [] answered.kind = "response" ->
                IF ParsesAsErrorPayload(answered.text)
                THEN Failure(ErrorPayloadMessage(answered.text))
                ELSE Failure(RawStatusMessage(answered.status_code, answered.text))
           [] answered.kind = "stream" ->
                IF answered.decodable THEN ParseStreamResponse(answered.lines)
                ELSE Failure(MSG_PARSE_FAILED \o EXC_UNICODE_ERROR)

\* C27: whatever the interleaving of two exchanges at their POSTs, each
\* returns what it returns alone on the same answers, and no step writes
\* the fields of the service.
C27_ExchangesDoNotInterfere ==
    [][/\ settings' = settings
       /\ pc' = "done" =>
            result' = ChatAlone(settings, create_outcome', workflow_outcome')
       /\ other'.pc = "done" =>
            other'.result = ChatAlone(settings, other'.create_outcome,
                                      other'.workflow_outcome)]_vars

\* The first exchange stands in its parse under the event name "completed";
\* the second has parsed a lone content line meanwhile and found no text.
C27_Witness ==
    /\ pc = "parsing"
    /\ idx = 2
    /\ current_event = PyStr(EV_COMPLETED)
    /\ other.pc = "done"
    /\ other.workflow_outcome # None
    /\ other.workflow_outcome.kind = "stream"
    /\ other.workflow_outcome.lines = <<DATA_PREFIX \o J_hel>>
    /\ other.result = CozeAIResponse(TRUE, None, None, None, None)

(***************************************************************************)
(* What the endpoint passes on of the handler's result.                    *)
(***************************************************************************)
\* handle_feishu_event returned a result and the endpoint has answered.
AnsweredResult == pc = "responded" /\ ack # None

\* The answer is 200, its success is the result's, its message is the
\* result's or, without one, the default text.
PassesOnSuccessAndMessage ==
    /\ http_response.status_code = 200
    /\ http_response.content.success = ack.success
    /\ http_response.content.message =
         IF "message" \in DOMAIN ack THEN ack.message ELSE PyStr(MSG_EVENT_PROCESSED)
    /\ ~ack.success => "message" \notin DOMAIN ack

====
